---- MODULE Spec2Model ----
(***************************************************************************)
(* Quran Khuwani Tracker: the Express handlers of server/routes.ts over    *)
(* the Postgres tables of shared/schema.ts, reached through                *)
(* server/storage.ts.                                                      *)
(*                                                                         *)
(* Every `await` on the store is one atomic step of a handler: the SQL     *)
(* statement it issues, followed by the synchronous code that runs up to   *)
(* the handler's next statement or its response.  Requests are numbered in *)
(* arrival order; a request keeps its response once it has answered.       *)
(*                                                                         *)
(* Text (names, slugs) is a sequence of one-character strings.  The        *)
(* timestamp columns (created_at, claimed_at) are not modelled: no handler *)
(* reads them.                                                             *)
(***************************************************************************)
EXTENDS Integers, Sequences, FiniteSets, TLC

VARIABLES
    organizers,      \* rows of table organizers
    session,         \* express-session store: browser -> organizerId (0: none)
    khuwanies,       \* rows of table khuwanies
    nextKhuwaniId,   \* the serial behind khuwanies.id
    claims,          \* rows of table claims
    nextClaimId,     \* the serial behind claims.id
    reqs             \* the requests: request number -> handler state

authVars == <<organizers, session>>
dbVars == <<khuwanies, nextKhuwaniId, claims, nextClaimId>>
vars == <<organizers, session, khuwanies, nextKhuwaniId, claims, nextClaimId, reqs>>

(***************************************************************************)
(* Bounds                                                                  *)
(***************************************************************************)
\* Requests in one run of the participant routes.
MaxReqs == 3
\* Requests in one run of all the routes together.
MaxLifecycleReqs == 2

Reqs == 1..MaxReqs

(***************************************************************************)
(* Text                                                                    *)
(***************************************************************************)
\* \s of the regular expressions and of String.prototype.trim.
IsSpace(c) == c \in {" "}

RECURSIVE TrimStart(_)
TrimStart(s) ==
    IF s # <<>> /\ IsSpace(Head(s)) THEN TrimStart(Tail(s)) ELSE s

RECURSIVE TrimEnd(_)
TrimEnd(s) ==
    IF s # <<>> /\ IsSpace(s[Len(s)]) THEN TrimEnd(SubSeq(s, 1, Len(s) - 1)) ELSE s

\* String.prototype.trim
Trim(s) == TrimEnd(TrimStart(s))

UpperSeq == <<"A", "B", "C", "D", "E", "F", "G", "H", "I", "J", "K", "L", "M",
             "N", "O", "P", "Q", "R", "S", "T", "U", "V", "W", "X", "Y", "Z">>
LowerSeq == <<"a", "b", "c", "d", "e", "f", "g", "h", "i", "j", "k", "l", "m",
             "n", "o", "p", "q", "r", "s", "t", "u", "v", "w", "x", "y", "z">>
UpperLetters == {UpperSeq[i] : i \in 1..Len(UpperSeq)}

ToLowerChar(c) ==
    IF c \in UpperLetters
    THEN LowerSeq[CHOOSE i \in 1..Len(UpperSeq) : UpperSeq[i] = c]
    ELSE c

\* String.prototype.toLowerCase
ToLowerCase(s) == [i \in 1..Len(s) |-> ToLowerChar(s[i])]

LowerLetters == {"a", "b", "c", "d", "e", "f", "g", "h", "i", "j", "k", "l", "m",
                 "n", "o", "p", "q", "r", "s", "t", "u", "v", "w", "x", "y", "z"}
Digits == {"0", "1", "2", "3", "4", "5", "6", "7", "8", "9"}

\* the characters /[^a-z0-9\s-]/ does not match
SlugChar(c) == c \in LowerLetters \/ c \in Digits \/ IsSpace(c) \/ c = "-"

RECURSIVE StripNonSlug(_)
\* .replace(/[^a-z0-9\s-]/g, "")
StripNonSlug(s) ==
    IF s = <<>> THEN <<>>
    ELSE IF SlugChar(Head(s)) THEN <<Head(s)>> \o StripNonSlug(Tail(s))
    ELSE StripNonSlug(Tail(s))

RECURSIVE SpacesToHyphen(_)
\* .replace(/\s+/g, "-")
SpacesToHyphen(s) ==
    IF s = <<>> THEN <<>>
    ELSE IF IsSpace(Head(s)) THEN <<"-">> \o SpacesToHyphen(TrimStart(s))
    ELSE <<Head(s)>> \o SpacesToHyphen(Tail(s))

RECURSIVE CollapseHyphens(_)
\* .replace(/-+/g, "-")
CollapseHyphens(s) ==
    IF s = <<>> THEN <<>>
    ELSE IF Head(s) = "-" /\ Len(s) > 1 /\ s[2] = "-" THEN CollapseHyphens(Tail(s))
    ELSE <<Head(s)>> \o CollapseHyphens(Tail(s))

\* a replacement of the hyphen at the start alone
TrimHyphens_Start(s) == IF s # <<>> /\ Head(s) = "-" THEN Tail(s) ELSE s

\* .replace(/^-|-$/g, ""): one hyphen at the start and one at the end
TrimHyphens(s) ==
    LET a == IF s # <<>> /\ Head(s) = "-" THEN Tail(s) ELSE s
    IN  IF a # <<>> /\ a[Len(a)] = "-" THEN SubSeq(a, 1, Len(a) - 1) ELSE a

\* generateSlug's base
SlugBase(name) ==
    TrimHyphens(CollapseHyphens(SpacesToHyphen(StripNonSlug(ToLowerCase(name)))))

\* generateSlug; random is Math.random().toString(36).substring(2, 7)
generateSlug(name, random) == SlugBase(name) \o <<"-">> \o random

(***************************************************************************)
(* Validation schemas                                                      *)
(***************************************************************************)
MinSipara == 1
MaxSipara == 30
MinNameLen == 1
MaxNameLen == 100

\* a schema without .max(30) on siparaNumber
claimBodySchema_NoSiparaMax(body) ==
    /\ body.quranNumber \in Int /\ body.quranNumber >= 1
    /\ body.siparaNumber \in Int
    /\ body.siparaNumber >= MinSipara
    /\ Len(body.participantName) >= MinNameLen
    /\ Len(body.participantName) <= MaxNameLen

\* a schema without .min(1) on quranNumber
claimBodySchema_NoQuranMin(body) ==
    /\ body.quranNumber \in Int
    /\ body.siparaNumber \in Int
    /\ body.siparaNumber >= MinSipara /\ body.siparaNumber <= MaxSipara
    /\ Len(body.participantName) >= MinNameLen
    /\ Len(body.participantName) <= MaxNameLen

\* claimBodySchema.safeParse(body).success: the length checks see the text
\* as sent, before trim
claimBodySchema(body) ==
    /\ body.quranNumber \in Int /\ body.quranNumber >= 1
    /\ body.siparaNumber \in Int
    /\ body.siparaNumber >= MinSipara /\ body.siparaNumber <= MaxSipara
    /\ Len(body.participantName) >= MinNameLen
    /\ Len(body.participantName) <= MaxNameLen

\* a schema without .trim()
ParsedName_Untrimmed(body) == body.participantName

\* parsed.data.participantName: .trim() transforms after the checks
ParsedName(body) == Trim(body.participantName)

\* a form schema without .min(1)
createKhuwaniFormSchema_Any(marhoomName) == TRUE

\* createKhuwaniFormSchema.safeParse(body).success
createKhuwaniFormSchema(marhoomName) == Len(marhoomName) >= 1

(***************************************************************************)
(* Storage reads                                                           *)
(***************************************************************************)
NoKhuwani == [id |-> 0, organizerId |-> 0, slug |-> <<>>, marhoomName |-> <<>>,
              numQurans |-> 0]

\* getKhuwaniById: the row, or NoKhuwani for undefined
getKhuwaniById(id) ==
    IF \E k \in khuwanies : k.id = id
    THEN CHOOSE k \in khuwanies : k.id = id
    ELSE NoKhuwani

\* getKhuwaniBySlug: the row, or NoKhuwani for undefined
getKhuwaniBySlug(slug) ==
    IF \E k \in khuwanies : k.slug = slug
    THEN CHOOSE k \in khuwanies : k.slug = slug
    ELSE NoKhuwani

slugExists(slug) == \E k \in khuwanies : k.slug = slug

getClaimsForKhuwani(khuwaniId) == {c \in claims : c.khuwaniId = khuwaniId}

(***************************************************************************)
(* Requests                                                                *)
(***************************************************************************)
NoBody == [quranNumber |-> 0, siparaNumber |-> 0, participantName |-> <<>>]

\* browser: the browser whose req.session the call reads or writes;
\* list: the rows a listing read; result: the {k, claims} entries a view or a
\* listing has assembled
Idle == [kind |-> "none", pc |-> "idle", organizerId |-> 0, id |-> 0,
         slug |-> <<>>, body |-> NoBody, marhoomName |-> <<>>, k |-> NoKhuwani,
         attempts |-> 0, list |-> {}, result |-> {}, browser |-> "",
         shown |-> {},
         status |-> 0, message |-> ""]

\* Requests are numbered as they arrive.
Arrives(r) ==
    /\ reqs[r].pc = "idle"
    /\ \A p \in Reqs : p < r => reqs[p].pc # "idle"

\* res.status(status).json({message}) ends the handler
Respond(r, req, status, message) ==
    reqs' = [reqs EXCEPT ![r] = [req EXCEPT !.pc = "done", !.status = status,
                                            !.message = message]]

Goto(r, req, pc) == reqs' = [reqs EXCEPT ![r] = [req EXCEPT !.pc = pc]]

(***************************************************************************)
(* Responses                                                               *)
(***************************************************************************)
NotAuthenticated == "Not authenticated"
KhuwaniNotFound == "Khuwani not found"
ZodMessage == "parsed.error.errors[0].message"
InvalidQuranNumber == "Invalid Quran number"
SlotTaken == "Sorry, this Sipara was just claimed by someone else. Please choose another."
FailedToClaim == "Failed to claim sipara"
CouldNotRelease == "Could not release this Sipara. You may not have claimed it."
SiparaReleased == "Sipara released"
FailedToRelease == "Failed to release sipara"

(***************************************************************************)
(* POST /api/k/:slug/claim                                                 *)
(***************************************************************************)
\* a claims table without the unique_claim constraint
UniqueClaimViolation_Never(khuwaniId, quranNumber, siparaNumber) == FALSE

\* a unique constraint on the khuwani alone
UniqueClaimViolation_PerKhuwani(khuwaniId, quranNumber, siparaNumber) ==
    \E c \in claims : c.khuwaniId = khuwaniId

\* unique("unique_claim").on(khuwaniId, quranNumber, siparaNumber): error 23505
UniqueClaimViolation(khuwaniId, quranNumber, siparaNumber) ==
    \E c \in claims : /\ c.khuwaniId = khuwaniId
                      /\ c.quranNumber = quranNumber
                      /\ c.siparaNumber = siparaNumber

\* a claims table whose khuwaniId references nothing
ClaimForeignKeyViolation_Never(khuwaniId) == FALSE

\* khuwaniId references khuwanies.id: error 23503 when the row is gone
ClaimForeignKeyViolation(khuwaniId) == ~ \E k \in khuwanies : k.id = khuwaniId

\* getKhuwaniBySlug, then the synchronous checks up to the insert being issued
ClaimGetKhuwani(r, slug, body) ==
    /\ Arrives(r)
    /\ LET k == getKhuwaniBySlug(slug)
           req == [Idle EXCEPT !.kind = "claim", !.slug = slug, !.body = body, !.k = k]
       IN  IF k = NoKhuwani THEN Respond(r, req, 404, KhuwaniNotFound)
           ELSE IF ~ claimBodySchema(body) THEN Respond(r, req, 400, ZodMessage)
           ELSE IF body.quranNumber > k.numQurans
                THEN Respond(r, req, 400, InvalidQuranNumber)
           ELSE Goto(r, req, "createClaim")
    /\ UNCHANGED <<authVars, dbVars>>

\* storage.createClaim and the handler's inner catch
ClaimCreateClaim(r) ==
    /\ reqs[r].kind = "claim" /\ reqs[r].pc = "createClaim"
    /\ LET req == reqs[r]
           row == [id |-> nextClaimId, khuwaniId |-> req.k.id,
                   quranNumber |-> req.body.quranNumber,
                   siparaNumber |-> req.body.siparaNumber,
                   participantName |-> ParsedName(req.body)]
       IN  /\ nextClaimId' = nextClaimId + 1
           /\ IF UniqueClaimViolation(row.khuwaniId, row.quranNumber, row.siparaNumber)
              THEN claims' = claims /\ Respond(r, req, 409, SlotTaken)
              ELSE IF ClaimForeignKeyViolation(row.khuwaniId)
              THEN claims' = claims /\ Respond(r, req, 500, FailedToClaim)
              ELSE claims' = claims \cup {row} /\ Respond(r, req, 200, "claim")
    /\ UNCHANGED <<authVars, khuwanies, nextKhuwaniId>>

(***************************************************************************)
(* POST /api/k/:slug/unclaim                                               *)
(***************************************************************************)
\* a where clause that leaves the name out
DeleteClaimWhere_AnyName(c, khuwaniId, quranNumber, siparaNumber, participantName) ==
    /\ c.khuwaniId = khuwaniId
    /\ c.quranNumber = quranNumber
    /\ c.siparaNumber = siparaNumber

\* a where clause that leaves the Quran number out
DeleteClaimWhere_AnyQuran(c, khuwaniId, quranNumber, siparaNumber, participantName) ==
    /\ c.khuwaniId = khuwaniId
    /\ c.siparaNumber = siparaNumber
    /\ c.participantName = participantName

\* deleteClaim's where clause
DeleteClaimWhere(c, khuwaniId, quranNumber, siparaNumber, participantName) ==
    /\ c.khuwaniId = khuwaniId
    /\ c.quranNumber = quranNumber
    /\ c.siparaNumber = siparaNumber
    /\ c.participantName = participantName

UnclaimGetKhuwani(r, slug, body) ==
    /\ Arrives(r)
    /\ LET k == getKhuwaniBySlug(slug)
           req == [Idle EXCEPT !.kind = "unclaim", !.slug = slug, !.body = body, !.k = k]
       IN  IF k = NoKhuwani THEN Respond(r, req, 404, KhuwaniNotFound)
           ELSE IF ~ claimBodySchema(body) THEN Respond(r, req, 400, ZodMessage)
           ELSE Goto(r, req, "deleteClaim")
    /\ UNCHANGED <<authVars, dbVars>>

\* a deleteClaim that reports a deletion whatever it deleted
DeleteClaimReturns_Always(result) == TRUE

\* deleteClaim's return value: result.length > 0
DeleteClaimReturns(result) == result # {}

\* storage.deleteClaim and the handler's answer
UnclaimDeleteClaim(r) ==
    /\ reqs[r].kind = "unclaim" /\ reqs[r].pc = "deleteClaim"
    /\ LET req == reqs[r]
           result == {c \in claims :
                        DeleteClaimWhere(c, req.k.id, req.body.quranNumber,
                                         req.body.siparaNumber, ParsedName(req.body))}
       IN  /\ claims' = claims \ result
           /\ IF ~ DeleteClaimReturns(result) THEN Respond(r, req, 400, CouldNotRelease)
              ELSE Respond(r, req, 200, SiparaReleased)
    /\ UNCHANGED <<authVars, khuwanies, nextKhuwaniId, nextClaimId>>

(***************************************************************************)
(* Organizer routes                                                        *)
(***************************************************************************)
KhuwaniCreated == "khuwani"
FailedToCreate == "Failed to create khuwani"
Deleted == "Deleted"
ClaimsReset == "Claims reset"
QuranAdded == "Quran added"

\* a loop that allows one more attempt
MaxSlugAttempts_More == 10 + 1

MaxSlugAttempts == 10

\* a gate that lets every request through
RequireAuth_Open(r, req, b, pc) ==
    Goto(r, [req EXCEPT !.organizerId = session[b]], pc)

\* requireAuth on a request of browser b, then the handler's synchronous start
RequireAuth(r, req, b, pc) ==
    IF session[b] = 0 THEN Respond(r, req, 401, NotAuthenticated)
    ELSE Goto(r, [req EXCEPT !.organizerId = session[b]], pc)

\* a handler without the check
NotOwned_Never(k, organizerId) == FALSE

\* a check of the row's presence alone
NotOwned_MissingOnly(k, organizerId) == k = NoKhuwani

\* !k || k.organizerId !== req.session.organizerId
NotOwned(k, organizerId) == k = NoKhuwani \/ k.organizerId # organizerId

\* getKhuwaniById and the ownership check shared by delete, reset and add-quran
OwnerGetKhuwani(r, kind, pc) ==
    /\ reqs[r].kind = kind /\ reqs[r].pc = "getKhuwaniById"
    /\ LET k == getKhuwaniById(reqs[r].id)
           req == [reqs[r] EXCEPT !.k = k]
       IN  IF NotOwned(k, req.organizerId) THEN Respond(r, req, 404, KhuwaniNotFound)
           ELSE Goto(r, req, pc)
    /\ UNCHANGED <<authVars, dbVars>>

(***************************************************************************)
(* POST /api/organizer/khuwani/create                                      *)
(***************************************************************************)
\* a khuwani created without a Quran
InitialNumQurans_Zero == 1 - 1

\* numQurans: 1
InitialNumQurans == 1

CreateArrive(r, b, marhoomName, random) ==
    /\ Arrives(r)
    /\ LET req == [Idle EXCEPT !.kind = "create", !.marhoomName = marhoomName]
       IN  IF session[b] = 0 THEN Respond(r, req, 401, NotAuthenticated)
           ELSE IF ~ createKhuwaniFormSchema(marhoomName)
                THEN Respond(r, [req EXCEPT !.organizerId = session[b]], 400, ZodMessage)
           ELSE Goto(r, [req EXCEPT !.organizerId = session[b],
                                    !.slug = generateSlug(marhoomName, random)],
                     "slugExists")
    /\ UNCHANGED <<authVars, dbVars>>

\* one evaluation of the while condition, and the loop body when it holds
CreateSlugExists(r, random) ==
    /\ reqs[r].kind = "create" /\ reqs[r].pc = "slugExists"
    /\ LET req == reqs[r]
       IN  IF slugExists(req.slug) /\ req.attempts < MaxSlugAttempts
           THEN reqs' = [reqs EXCEPT ![r] =
                            [req EXCEPT !.slug = generateSlug(req.marhoomName, random),
                                        !.attempts = req.attempts + 1]]
           ELSE Goto(r, req, "createKhuwani")
    /\ UNCHANGED <<authVars, dbVars>>

\* a khuwanies table whose slug is not unique
UniqueSlugViolation_Never(slug) == FALSE

\* slug: text("slug").notNull().unique(): error 23505
UniqueSlugViolation(slug) == \E k \in khuwanies : k.slug = slug

\* storage.createKhuwani; a unique violation lands in the catch
CreateKhuwani(r) ==
    /\ reqs[r].kind = "create" /\ reqs[r].pc = "createKhuwani"
    /\ LET req == reqs[r]
           row == [id |-> nextKhuwaniId, organizerId |-> req.organizerId,
                   slug |-> req.slug, marhoomName |-> req.marhoomName,
                   numQurans |-> InitialNumQurans]
       IN  /\ nextKhuwaniId' = nextKhuwaniId + 1
           /\ IF UniqueSlugViolation(req.slug)
              THEN khuwanies' = khuwanies /\ Respond(r, req, 500, FailedToCreate)
              ELSE /\ khuwanies' = khuwanies \cup {row}
                   /\ Respond(r, [req EXCEPT !.k = row], 200, KhuwaniCreated)
    /\ UNCHANGED <<authVars, claims, nextClaimId>>

(***************************************************************************)
(* POST /api/organizer/khuwani/:id/delete                                  *)
(***************************************************************************)
DeleteArrive(r, b, id) ==
    /\ Arrives(r)
    /\ RequireAuth(r, [Idle EXCEPT !.kind = "delete", !.id = id], b, "getKhuwaniById")
    /\ UNCHANGED <<authVars, dbVars>>

DeleteGetKhuwani(r) == OwnerGetKhuwani(r, "delete", "deleteClaims")

\* deleteKhuwani, first statement: delete from claims where khuwani_id = id
DeleteKhuwaniClaims(r) ==
    /\ reqs[r].kind = "delete" /\ reqs[r].pc = "deleteClaims"
    /\ claims' = claims \ getClaimsForKhuwani(reqs[r].id)
    /\ Goto(r, reqs[r], "deleteKhuwani")
    /\ UNCHANGED <<authVars, khuwanies, nextKhuwaniId, nextClaimId>>

\* deleteKhuwani, second statement: delete from khuwanies where id = id;
\* claims.khuwani_id is on delete cascade
DeleteKhuwaniRow(r) ==
    /\ reqs[r].kind = "delete" /\ reqs[r].pc = "deleteKhuwani"
    /\ khuwanies' = {k \in khuwanies : k.id # reqs[r].id}
    /\ claims' = {c \in claims : \E k \in khuwanies' : k.id = c.khuwaniId}
    /\ Respond(r, reqs[r], 200, Deleted)
    /\ UNCHANGED <<authVars, nextKhuwaniId, nextClaimId>>

(***************************************************************************)
(* POST /api/organizer/khuwani/:id/reset                                   *)
(***************************************************************************)
ResetArrive(r, b, id) ==
    /\ Arrives(r)
    /\ RequireAuth(r, [Idle EXCEPT !.kind = "reset", !.id = id], b, "getKhuwaniById")
    /\ UNCHANGED <<authVars, dbVars>>

ResetGetKhuwani(r) == OwnerGetKhuwani(r, "reset", "deleteAllClaims")

\* a delete without its where clause
ResetWhere_All(c, khuwaniId) == TRUE

\* deleteAllClaimsForKhuwani's where clause
ResetWhere(c, khuwaniId) == c.khuwaniId = khuwaniId

ResetDeleteAllClaims(r) ==
    /\ reqs[r].kind = "reset" /\ reqs[r].pc = "deleteAllClaims"
    /\ claims' = {c \in claims : ~ ResetWhere(c, reqs[r].id)}
    /\ Respond(r, reqs[r], 200, ClaimsReset)
    /\ UNCHANGED <<authVars, khuwanies, nextKhuwaniId, nextClaimId>>

(***************************************************************************)
(* POST /api/organizer/khuwani/:id/add-quran                               *)
(***************************************************************************)
AddQuranArrive(r, b, id) ==
    /\ Arrives(r)
    /\ RequireAuth(r, [Idle EXCEPT !.kind = "add-quran", !.id = id], b, "getKhuwaniById")
    /\ UNCHANGED <<authVars, dbVars>>

AddQuranGetKhuwani(r) == OwnerGetKhuwani(r, "add-quran", "incrementQurans")

\* an increment computed by the handler from the row it read
IncrementedQurans_FromRead(row, k) == k.numQurans + 1

\* set num_qurans = num_qurans + 1, computed by the store on the row as it
\* is; k is the row the handler read before
IncrementedQurans(row, k) == row.numQurans + 1

\* an update that also writes the dedicatee's name from the row read before
IncrementQuransSet_WithName(row, k) ==
    [row EXCEPT !.numQurans = IncrementedQurans(row, k),
                !.marhoomName = ToLowerCase(k.marhoomName)]

\* .set({ numQurans: ... }): the one column the update writes
IncrementQuransSet(row, k) ==
    [row EXCEPT !.numQurans = IncrementedQurans(row, k)]

\* storage.incrementQurans: update ... where id = khuwaniId
AddQuranIncrement(r) ==
    /\ reqs[r].kind = "add-quran" /\ reqs[r].pc = "incrementQurans"
    /\ khuwanies' = {IF row.id = reqs[r].id
                     THEN IncrementQuransSet(row, reqs[r].k)
                     ELSE row : row \in khuwanies}
    /\ Respond(r, reqs[r], 200, QuranAdded)
    /\ UNCHANGED <<authVars, claims, nextKhuwaniId, nextClaimId>>

(***************************************************************************)
(* GET /api/k/:slug                                                        *)
(***************************************************************************)
KhuwaniView == "view"

ViewGetKhuwani(r, slug) ==
    /\ Arrives(r)
    /\ LET k == getKhuwaniBySlug(slug)
           req == [Idle EXCEPT !.kind = "view", !.slug = slug, !.k = k]
       IN  IF k = NoKhuwani THEN Respond(r, req, 404, KhuwaniNotFound)
           ELSE Goto(r, req, "getClaimsForKhuwani")
    /\ UNCHANGED <<authVars, dbVars>>

\* getClaimsForKhuwani(k.id) and the answer: the row read before, with the
\* claims as they are now
ViewGetClaims(r) ==
    /\ reqs[r].kind = "view" /\ reqs[r].pc = "getClaimsForKhuwani"
    /\ LET req == reqs[r]
           entry == [k |-> req.k, claims |-> getClaimsForKhuwani(req.k.id)]
       IN  Respond(r, [req EXCEPT !.result = {entry}], 200, KhuwaniView)
    /\ UNCHANGED <<authVars, dbVars>>

(***************************************************************************)
(* GET /api/organizer/khuwanies                                            *)
(***************************************************************************)
KhuwaniList == "result"

\* a select without its where clause
getKhuwaniesForOrganizer_All(organizerId) == khuwanies

\* select ... where organizer_id = organizerId
getKhuwaniesForOrganizer(organizerId) ==
    {k \in khuwanies : k.organizerId = organizerId}

ListArrive(r, b) ==
    /\ Arrives(r)
    /\ RequireAuth(r, [Idle EXCEPT !.kind = "list", !.browser = b], b,
                   "getKhuwaniesForOrganizer")
    /\ UNCHANGED <<authVars, dbVars>>

\* getKhuwaniesForOrganizer; Promise.all over no rows resolves at once
ListGetKhuwanies(r) ==
    /\ reqs[r].kind = "list" /\ reqs[r].pc = "getKhuwaniesForOrganizer"
    /\ LET list == getKhuwaniesForOrganizer(reqs[r].organizerId)
           req == [reqs[r] EXCEPT !.list = list]
       IN  IF list = {} THEN Respond(r, req, 200, KhuwaniList)
           ELSE Goto(r, req, "getClaimsForKhuwani")
    /\ UNCHANGED <<authVars, dbVars>>

\* one of the getClaimsForKhuwani queries of Promise.all, for row k of the
\* list; the answer follows the last of them
ListGetClaims(r, k) ==
    /\ reqs[r].kind = "list" /\ reqs[r].pc = "getClaimsForKhuwani"
    /\ k \in reqs[r].list
    /\ ~ \E e \in reqs[r].result : e.k = k
    /\ LET entry == [k |-> k, claims |-> getClaimsForKhuwani(k.id)]
           req == [reqs[r] EXCEPT !.result = @ \cup {entry}]
       IN  IF {e.k : e \in req.result} = req.list
           THEN Respond(r, req, 200, KhuwaniList)
           ELSE reqs' = [reqs EXCEPT ![r] = req]
    /\ UNCHANGED <<authVars, dbVars>>

(***************************************************************************)
(* The pages' progress figures, computed in the browser from an answer     *)
(***************************************************************************)
SiparasPerQuran == 30
PerCent == 100

\* a rounding that drops the fraction
MathRound_Floor(num, den) == num \div den

\* Math.round of the quotient num / den, num >= 0 and den > 0: the floor of
\* the quotient plus one half
MathRound(num, den) == (2 * num + den) \div (2 * den)

\* const totalSiparas = k.numQurans * 30
totalSiparas(k) == k.numQurans * SiparasPerQuran

\* Math.round(progress) of the dashboard's card for entry e of the list, with
\* progress = totalSiparas > 0 ? (claimedCount / totalSiparas) * 100 : 0
DashboardPercent(e) ==
    LET claimedCount == Cardinality(e.claims)
    IN  IF totalSiparas(e.k) > 0
        THEN MathRound(claimedCount * PerCent, totalSiparas(e.k))
        ELSE 0

\* data.claims.filter((c) => c.quranNumber === activeQuran).length
claimedInQuran(data, activeQuran) ==
    Cardinality({c \in data.claims : c.quranNumber = activeQuran})

\* Math.round((claimedInQuran / 30) * 100) of the participant's page
ParticipantPercent(data, activeQuran) ==
    MathRound(claimedInQuran(data, activeQuran) * PerCent, SiparasPerQuran)

\* perQuranClaims[qNum] || 0 of the dashboard's card for entry e
perQuranClaims(e, qNum) == Cardinality({c \in e.claims : c.quranNumber = qNum})

\* the dashboard renders the answered list: one card per khuwani
DashboardRender(r) ==
    /\ reqs[r].kind = "list" /\ reqs[r].pc = "done" /\ reqs[r].status = 200
    /\ reqs' = [reqs EXCEPT ![r] =
                   [@ EXCEPT !.pc = "rendered",
                             !.shown = {[k |-> e.k, claims |-> e.claims,
                                         activeQuran |-> 0,
                                         percent |-> DashboardPercent(e)] :
                                        e \in reqs[r].result}]]
    /\ UNCHANGED <<authVars, dbVars>>

\* the participant's page renders the answered view with the tab of Quran
\* activeQuran selected
ParticipantRender(r, activeQuran) ==
    /\ reqs[r].kind = "view" /\ reqs[r].pc = "done" /\ reqs[r].status = 200
    /\ \A data \in reqs[r].result : activeQuran \in 1..data.k.numQurans
    /\ reqs' = [reqs EXCEPT ![r] =
                   [@ EXCEPT !.pc = "rendered",
                             !.shown = {[k |-> data.k, claims |-> data.claims,
                                         activeQuran |-> activeQuran,
                                         percent |-> ParticipantPercent(data, activeQuran)] :
                                        data \in reqs[r].result}]]
    /\ UNCHANGED <<authVars, dbVars>>

(***************************************************************************)
(* POST /api/organizer/register                                            *)
(***************************************************************************)
MinPasswordLen == 6

Alnum == LowerLetters \cup UpperLetters \cup Digits

\* z.string().email(): /^(?!\.)(?!.*\.\.)([A-Z0-9_'+\-\.]*)[A-Z0-9_+-]@
\* ([A-Z0-9][A-Z0-9\-]*\.)+[A-Z]{2,}$/i
IsEmail(e) ==
    LET at == {i \in 1..Len(e) : e[i] = "@"}
    IN  /\ Cardinality(at) = 1
        /\ LET i == CHOOSE j \in at : TRUE
               local == SubSeq(e, 1, i - 1)
               domain == SubSeq(e, i + 1, Len(e))
               dots == {j \in 1..Len(domain) : domain[j] = "."}
           IN  /\ ~ \E j \in 1..(Len(e) - 1) : e[j] = "." /\ e[j + 1] = "."
               /\ Len(local) >= 1
               /\ local[1] # "."
               /\ \A j \in 1..Len(local) : local[j] \in Alnum \cup {"_", "'", "+", "-", "."}
               /\ local[Len(local)] \in Alnum \cup {"_", "+", "-"}
               /\ dots # {}
               /\ LET last == CHOOSE j \in dots : \A d \in dots : d <= j
                  IN  /\ Len(domain) - last >= 2
                      /\ \A j \in (last + 1)..Len(domain) :
                            domain[j] \in LowerLetters \cup UpperLetters
                      /\ domain[1] \in Alnum
                      /\ \A j \in 1..last :
                            /\ domain[j] \in Alnum \cup {"-", "."}
                            /\ (domain[j] = "." /\ j < last) => domain[j + 1] \in Alnum

\* a schema without the refinement on confirmPassword
registerSchema_NoConfirm(body) ==
    /\ IsEmail(body.email)
    /\ Len(body.password) >= MinPasswordLen
    /\ Len(body.confirmPassword) >= MinPasswordLen

\* registerSchema.safeParse(body).success
registerSchema(body) ==
    /\ IsEmail(body.email)
    /\ Len(body.password) >= MinPasswordLen
    /\ Len(body.confirmPassword) >= MinPasswordLen
    /\ body.password = body.confirmPassword

\* bcrypt.hash(password, 10): a salted digest, never the password itself
Hash(password) == <<"$2a$10$">> \o password

NoOrganizer == [id |-> 0, email |-> <<>>, passwordHash |-> <<>>]

getOrganizerByEmail(email) ==
    IF \E o \in organizers : o.email = email
    THEN CHOOSE o \in organizers : o.email = email
    ELSE NoOrganizer

\* an organizers table whose email is not unique
UniqueEmailViolation_Never(email) == FALSE

\* email: text("email").notNull().unique(): error 23505
UniqueEmailViolation(email) == \E o \in organizers : o.email = email

\* serial("id"): an id no row has
NextOrganizerId == 1 + Cardinality(organizers)

AccountCreated == "Account created"
EmailExists == "An account with this email already exists"
RegistrationFailed == "Registration failed"

\* the schema, then getOrganizerByEmail and the check of its result
RegisterGetOrganizer(r, b, body) ==
    /\ Arrives(r)
    /\ LET req == [Idle EXCEPT !.kind = "register", !.browser = b, !.body = body]
       IN  IF ~ registerSchema(body) THEN Respond(r, req, 400, ZodMessage)
           ELSE IF getOrganizerByEmail(body.email) # NoOrganizer
                THEN Respond(r, req, 400, EmailExists)
           ELSE Goto(r, req, "createOrganizer")
    /\ UNCHANGED <<authVars, dbVars>>

\* bcrypt.hash, which reads and writes nothing shared, then createOrganizer
\* and the write of req.session; a unique violation lands in the catch
RegisterCreateOrganizer(r) ==
    /\ reqs[r].kind = "register" /\ reqs[r].pc = "createOrganizer"
    /\ LET req == reqs[r]
           row == [id |-> NextOrganizerId, email |-> req.body.email,
                   passwordHash |-> Hash(req.body.password)]
       IN  IF UniqueEmailViolation(req.body.email)
           THEN /\ UNCHANGED authVars
                /\ Respond(r, req, 500, RegistrationFailed)
           ELSE /\ organizers' = organizers \cup {row}
                /\ session' = [session EXCEPT ![req.browser] = row.id]
                /\ Respond(r, [req EXCEPT !.organizerId = row.id], 200, AccountCreated)
    /\ UNCHANGED dbVars

(***************************************************************************)
(* POST /api/organizer/login and POST /api/organizer/logout                *)
(***************************************************************************)
InvalidLogin == "Invalid email or password"
LoggedIn == "Logged in"
LoggedOut == "Logged out"

\* loginSchema.safeParse(body).success
loginSchema(body) == IsEmail(body.email) /\ Len(body.password) >= MinPasswordLen

\* a comparison that accepts every password
Compare_Any(password, passwordHash) == TRUE

\* bcrypt.compare(password, passwordHash)
Compare(password, passwordHash) == Hash(password) = passwordHash

\* the handler up to getOrganizerByEmail and the check of its result
LoginGetOrganizer(r, b, body) ==
    /\ Arrives(r)
    /\ LET req == [Idle EXCEPT !.kind = "login", !.browser = b, !.body = body]
           organizer == getOrganizerByEmail(body.email)
       IN  IF ~ loginSchema(body) THEN Respond(r, req, 400, ZodMessage)
           ELSE IF organizer = NoOrganizer THEN Respond(r, req, 401, InvalidLogin)
           ELSE Goto(r, [req EXCEPT !.organizerId = organizer.id], "compare")
    /\ UNCHANGED <<authVars, dbVars>>

\* bcrypt.compare against the row read before, then the write of req.session
LoginCompare(r) ==
    /\ reqs[r].kind = "login" /\ reqs[r].pc = "compare"
    /\ LET req == reqs[r]
           organizer == CHOOSE o \in organizers : o.id = req.organizerId
       IN  IF ~ Compare(req.body.password, organizer.passwordHash)
           THEN /\ session' = session
                /\ Respond(r, [req EXCEPT !.organizerId = 0], 401, InvalidLogin)
           ELSE /\ session' = [session EXCEPT ![req.browser] = organizer.id]
                /\ Respond(r, req, 200, LoggedIn)
    /\ UNCHANGED <<organizers, dbVars>>

\* req.session.destroy and the answer in its callback
Logout(r, b) ==
    /\ Arrives(r)
    /\ session' = [session EXCEPT ![b] = 0]
    /\ Respond(r, [Idle EXCEPT !.kind = "logout", !.browser = b], 200, LoggedOut)
    /\ UNCHANGED <<organizers, dbVars>>

(***************************************************************************)
(* The system after two organizers have registered, each signed in from    *)
(* one browser, and have created one khuwani each.                         *)
(***************************************************************************)
Browsers == {"b0", "b1", "b2"}

InitAuth ==
    /\ organizers = {[id |-> 1, email |-> "one@example.org", passwordHash |-> "h1"],
                     [id |-> 2, email |-> "two@example.org", passwordHash |-> "h2"]}
    /\ session = [b \in Browsers |-> CASE b = "b1" -> 1 [] b = "b2" -> 2 [] OTHER -> 0]

Khuwani1 == [id |-> 1, organizerId |-> 1, slug |-> generateSlug(<<"A">>, <<"x">>),
             marhoomName |-> <<"A">>, numQurans |-> InitialNumQurans]
Khuwani2 == [id |-> 2, organizerId |-> 2, slug |-> generateSlug(<<"Z">>, <<"x">>),
             marhoomName |-> <<"Z">>, numQurans |-> InitialNumQurans]

Claim(id, khuwaniId, quranNumber, siparaNumber, participantName) ==
    [id |-> id, khuwaniId |-> khuwaniId, quranNumber |-> quranNumber,
     siparaNumber |-> siparaNumber, participantName |-> participantName]

(***************************************************************************)
(* Spec: all the routes together.  Both khuwanies hold a claim on their    *)
(* sipara 1.                                                               *)
(***************************************************************************)
InitialClaims == {Claim(1, 1, 1, 1, <<"A">>), Claim(2, 2, 1, 1, <<"A">>)}

Init ==
    /\ InitAuth
    /\ khuwanies = {Khuwani1, Khuwani2}
    /\ nextKhuwaniId = 3
    /\ claims = InitialClaims
    /\ nextClaimId = 3
    /\ reqs = [r \in Reqs |-> Idle]

LifecycleReqs == 1..MaxLifecycleReqs
Owners == {"b1", "b2"}
MarhoomNames == {<<"H", "a">>}
Randoms == {<<"x">>, <<"y">>}
Slugs == {Khuwani1.slug, Khuwani2.slug}
KhuwaniIds == {1, 2}
Bodies == [quranNumber : {1, 2}, siparaNumber : {1}, participantName : {<<"A">>}]

Next ==
    \/ \E r \in LifecycleReqs, slug \in Slugs, body \in Bodies :
          ClaimGetKhuwani(r, slug, body)
    \/ \E r \in LifecycleReqs : ClaimCreateClaim(r)
    \/ \E r \in LifecycleReqs, slug \in Slugs, body \in Bodies :
          UnclaimGetKhuwani(r, slug, body)
    \/ \E r \in LifecycleReqs : UnclaimDeleteClaim(r)
    \/ \E r \in LifecycleReqs, b \in Owners, n \in MarhoomNames, x \in Randoms :
          CreateArrive(r, b, n, x)
    \/ \E r \in LifecycleReqs, x \in Randoms : CreateSlugExists(r, x)
    \/ \E r \in LifecycleReqs : CreateKhuwani(r)
    \/ \E r \in LifecycleReqs, b \in Owners, id \in KhuwaniIds : DeleteArrive(r, b, id)
    \/ \E r \in LifecycleReqs : DeleteGetKhuwani(r)
    \/ \E r \in LifecycleReqs : DeleteKhuwaniClaims(r)
    \/ \E r \in LifecycleReqs : DeleteKhuwaniRow(r)
    \/ \E r \in LifecycleReqs, b \in Owners, id \in KhuwaniIds : ResetArrive(r, b, id)
    \/ \E r \in LifecycleReqs : ResetGetKhuwani(r)
    \/ \E r \in LifecycleReqs : ResetDeleteAllClaims(r)
    \/ \E r \in LifecycleReqs, b \in Owners, id \in KhuwaniIds : AddQuranArrive(r, b, id)
    \/ \E r \in LifecycleReqs : AddQuranGetKhuwani(r)
    \/ \E r \in LifecycleReqs : AddQuranIncrement(r)

Spec == Init /\ [][Next]_vars

(***************************************************************************)
(* SpecClaim: the participant routes on khuwani 1, which has grown to two  *)
(* Qurans: sipara 1 of Quran 1 is free, sipara 1 of Quran 2 is held by     *)
(* "A".  Names are sent in either case and padded; for Quran 1 also blank  *)
(* and empty.                                                              *)
(***************************************************************************)
ClaimKhuwani1 == [Khuwani1 EXCEPT !.numQurans = 2]
ClaimInitialClaims == {Claim(1, 1, 2, 1, <<"A">>), Claim(2, 2, 1, 1, <<"A">>)}

InitClaim ==
    /\ InitAuth
    /\ khuwanies = {ClaimKhuwani1, Khuwani2}
    /\ nextKhuwaniId = 3
    /\ claims = ClaimInitialClaims
    /\ nextClaimId = 3
    /\ reqs = [r \in Reqs |-> Idle]

ClaimSlugs == {Khuwani1.slug}
ClaimNames == {<<"A">>, <<"a">>, <<" ", "A">>}
BlankNames == {<<" ">>, <<>>}
ClaimBodies ==
    [quranNumber : {1, 2}, siparaNumber : {1}, participantName : ClaimNames]
        \cup [quranNumber : {1}, siparaNumber : {1}, participantName : BlankNames]

NextClaim ==
    \/ \E r \in Reqs, slug \in ClaimSlugs, body \in ClaimBodies :
          ClaimGetKhuwani(r, slug, body)
    \/ \E r \in Reqs : ClaimCreateClaim(r)
    \/ \E r \in Reqs, slug \in ClaimSlugs, body \in ClaimBodies :
          UnclaimGetKhuwani(r, slug, body)
    \/ \E r \in Reqs : UnclaimDeleteClaim(r)

SpecClaim == InitClaim /\ [][NextClaim]_vars

(***************************************************************************)
(* SpecRead: the two reading routes beside delete.  Claims leave the       *)
(* table through a delete only.                                            *)
(***************************************************************************)
\* Requests in one run of the reading routes and delete.
MaxReadReqs == 2

ReadReqs == 1..MaxReadReqs

NextRead ==
    \/ \E r \in ReadReqs, slug \in Slugs : ViewGetKhuwani(r, slug)
    \/ \E r \in ReadReqs : ViewGetClaims(r)
    \/ \E r \in ReadReqs, b \in Owners : ListArrive(r, b)
    \/ \E r \in ReadReqs : ListGetKhuwanies(r)
    \/ \E r \in ReadReqs : \E k \in reqs[r].list : ListGetClaims(r, k)
    \/ \E r \in ReadReqs, b \in Owners, id \in KhuwaniIds : DeleteArrive(r, b, id)
    \/ \E r \in ReadReqs : DeleteGetKhuwani(r)
    \/ \E r \in ReadReqs : DeleteKhuwaniClaims(r)
    \/ \E r \in ReadReqs : DeleteKhuwaniRow(r)

SpecRead == Init /\ [][NextRead]_vars

(***************************************************************************)
(* SpecGate: the organizer routes on khuwani 1, called from the browser of *)
(* its owner and from a browser that is not signed in; the name sent to    *)
(* create may be empty.                                                    *)
(***************************************************************************)
\* Requests in one run of the organizer routes.
MaxGateReqs == 2

GateReqs == 1..MaxGateReqs
GateBrowsers == {"b0", "b1"}
GateNames == {<<"H", "a">>, <<>>}
GateIds == {1}

NextGate ==
    \/ \E r \in GateReqs, b \in GateBrowsers : ListArrive(r, b)
    \/ \E r \in GateReqs : ListGetKhuwanies(r)
    \/ \E r \in GateReqs : \E k \in reqs[r].list : ListGetClaims(r, k)
    \/ \E r \in GateReqs, b \in GateBrowsers, n \in GateNames, x \in Randoms :
          CreateArrive(r, b, n, x)
    \/ \E r \in GateReqs, x \in Randoms : CreateSlugExists(r, x)
    \/ \E r \in GateReqs : CreateKhuwani(r)
    \/ \E r \in GateReqs, b \in GateBrowsers, id \in GateIds : DeleteArrive(r, b, id)
    \/ \E r \in GateReqs : DeleteGetKhuwani(r)
    \/ \E r \in GateReqs : DeleteKhuwaniClaims(r)
    \/ \E r \in GateReqs : DeleteKhuwaniRow(r)
    \/ \E r \in GateReqs, b \in GateBrowsers, id \in GateIds : ResetArrive(r, b, id)
    \/ \E r \in GateReqs : ResetGetKhuwani(r)
    \/ \E r \in GateReqs : ResetDeleteAllClaims(r)
    \/ \E r \in GateReqs, b \in GateBrowsers, id \in GateIds : AddQuranArrive(r, b, id)
    \/ \E r \in GateReqs : AddQuranGetKhuwani(r)
    \/ \E r \in GateReqs : AddQuranIncrement(r)

SpecGate == Init /\ [][NextGate]_vars

(***************************************************************************)
(* SpecSlot: claim calls on khuwani 1, which starts with one Quran, beside *)
(* its owner's add-quran calls.  The bodies name Qurans 0 to 3, siparas 0, *)
(* 1, 30 and 31, and names that are blank, empty, 100 and 101 characters   *)
(* long.                                                                   *)
(***************************************************************************)
\* Requests in one run of claim and add-quran.
MaxSlotReqs == 3

SlotReqs == 1..MaxSlotReqs
Name100 == [i \in 1..MaxNameLen |-> "A"]
Name101 == [i \in 1..(MaxNameLen + 1) |-> "A"]
SlotBodies ==
    [quranNumber : {1, 2}, siparaNumber : {MinSipara, MaxSipara},
     participantName : {<<"A">>}]
        \cup [quranNumber : {0, 3}, siparaNumber : {MinSipara},
              participantName : {<<"A">>}]
        \cup [quranNumber : {1}, siparaNumber : {MinSipara - 1, MaxSipara + 1},
              participantName : {<<"A">>}]
        \cup [quranNumber : {1}, siparaNumber : {MaxSipara},
              participantName : {<<" ">>, <<>>, Name100, Name101}]

NextSlot ==
    \/ \E r \in SlotReqs, slug \in ClaimSlugs, body \in SlotBodies :
          ClaimGetKhuwani(r, slug, body)
    \/ \E r \in SlotReqs : ClaimCreateClaim(r)
    \/ \E r \in SlotReqs, id \in GateIds : AddQuranArrive(r, "b1", id)
    \/ \E r \in SlotReqs : AddQuranGetKhuwani(r)
    \/ \E r \in SlotReqs : AddQuranIncrement(r)

SpecSlot == Init /\ [][NextSlot]_vars

(***************************************************************************)
(* SpecCaller: the participant routes called from browsers that are signed *)
(* in and from one that is not.  express-session loads req.session for     *)
(* every route; the request keeps the identity it carried.                 *)
(***************************************************************************)
\* Requests in one run of the participant routes with their callers.
MaxCallerReqs == 2

CallerReqs == 1..MaxCallerReqs

\* every route would be registered with requireAuth
RequiresAuth_All(kind) == TRUE

\* the routes registered with requireAuth: all but the three under /api/k
RequiresAuth(kind) == kind \notin {"view", "claim", "unclaim"}

\* the lookup of a claim call of browser b
ClaimFrom(r, b, slug, body) ==
    /\ Arrives(r)
    /\ LET k == getKhuwaniBySlug(slug)
           req == [Idle EXCEPT !.kind = "claim", !.organizerId = session[b],
                               !.slug = slug, !.body = body, !.k = k]
       IN  IF RequiresAuth("claim") /\ session[b] = 0
           THEN Respond(r, [req EXCEPT !.k = NoKhuwani], 401, NotAuthenticated)
           ELSE IF k = NoKhuwani THEN Respond(r, req, 404, KhuwaniNotFound)
           ELSE IF ~ claimBodySchema(body) THEN Respond(r, req, 400, ZodMessage)
           ELSE IF body.quranNumber > k.numQurans
                THEN Respond(r, req, 400, InvalidQuranNumber)
           ELSE Goto(r, req, "createClaim")
    /\ UNCHANGED <<authVars, dbVars>>

\* the lookup of a release call of browser b
UnclaimFrom(r, b, slug, body) ==
    /\ Arrives(r)
    /\ LET k == getKhuwaniBySlug(slug)
           req == [Idle EXCEPT !.kind = "unclaim", !.organizerId = session[b],
                               !.slug = slug, !.body = body, !.k = k]
       IN  IF RequiresAuth("unclaim") /\ session[b] = 0
           THEN Respond(r, [req EXCEPT !.k = NoKhuwani], 401, NotAuthenticated)
           ELSE IF k = NoKhuwani THEN Respond(r, req, 404, KhuwaniNotFound)
           ELSE IF ~ claimBodySchema(body) THEN Respond(r, req, 400, ZodMessage)
           ELSE Goto(r, req, "deleteClaim")
    /\ UNCHANGED <<authVars, dbVars>>

CallerSlugs == {Khuwani1.slug, <<"n", "o">>}
CallerBodies ==
    [quranNumber : {1, 2}, siparaNumber : {1}, participantName : {<<"A">>, <<"a">>}]
        \cup [quranNumber : {3}, siparaNumber : {1}, participantName : {<<"A">>}]
        \cup [quranNumber : {1}, siparaNumber : {1}, participantName : {<<>>}]

NextCaller ==
    \/ \E r \in CallerReqs, b \in Browsers, slug \in CallerSlugs, body \in CallerBodies :
          ClaimFrom(r, b, slug, body)
    \/ \E r \in CallerReqs : ClaimCreateClaim(r)
    \/ \E r \in CallerReqs, b \in Browsers, slug \in CallerSlugs, body \in CallerBodies :
          UnclaimFrom(r, b, slug, body)
    \/ \E r \in CallerReqs : UnclaimDeleteClaim(r)

SpecCaller == InitClaim /\ [][NextCaller]_vars

(***************************************************************************)
(* SpecRegister: registrations from two browsers, neither signed in, when  *)
(* one organizer has an account.  The bodies carry the registered address, *)
(* a new one and two that are not addresses, and passwords of six and of   *)
(* five characters with a confirmation that is the same or not.            *)
(***************************************************************************)
\* Requests in one run of register.
MaxRegisterReqs == 2

RegisterReqs == 1..MaxRegisterReqs
RegisteredEmail == <<"a", "@", "b", ".", "c", "o">>
NewEmail == <<"n", "@", "b", ".", "c", "o">>
NotEmails == {<<"n", "@", "b">>, <<"n", ".", "@", "b", ".", "c", "o">>}
Password6 == <<"s", "e", "c", "r", "e", "t">>
Other6 == <<"S", "e", "c", "r", "e", "t">>
Password5 == <<"s", "e", "c", "r", "e">>
RegisterBrowsers == {"b0", "b1"}
RegisterBodies ==
    [email : {RegisteredEmail, NewEmail}, password : {Password6, Password5},
     confirmPassword : {Password6, Password5, Other6}]
        \cup [email : NotEmails, password : {Password6},
              confirmPassword : {Password6}]

InitRegister ==
    /\ organizers = {[id |-> 1, email |-> RegisteredEmail,
                      passwordHash |-> Hash(Password6)]}
    /\ session = [b \in Browsers |-> 0]
    /\ khuwanies = {Khuwani1}
    /\ nextKhuwaniId = 2
    /\ claims = {}
    /\ nextClaimId = 1
    /\ reqs = [r \in Reqs |-> Idle]

NextRegister ==
    \/ \E r \in RegisterReqs, b \in RegisterBrowsers, body \in RegisterBodies :
          RegisterGetOrganizer(r, b, body)
    \/ \E r \in RegisterReqs : RegisterCreateOrganizer(r)

SpecRegister == InitRegister /\ [][NextRegister]_vars

(***************************************************************************)
(* SpecProgress: the two pages beside claim, reset and add-quran calls on  *)
(* khuwani 1, which starts with two Qurans, the first n siparas of Quran 1 *)
(* claimed for some n from 0 to 30, and sipara 1 of Quran 2 claimed or     *)
(* not.                                                                    *)
(***************************************************************************)
\* Requests in one run of the pages.
MaxProgressReqs == 2

ProgressReqs == 1..MaxProgressReqs
ProgressKhuwani == [Khuwani1 EXCEPT !.numQurans = 2]
ProgressBodies ==
    [quranNumber : {1, 2}, siparaNumber : {MaxSipara}, participantName : {<<"A">>}]

\* the first n1 siparas of Quran 1 and the first n2 of Quran 2, claimed in
\* that order
ProgressClaims(n1, n2) ==
    {Claim(s, ProgressKhuwani.id, 1, s, <<"A">>) : s \in 1..n1}
        \cup {Claim(n1 + s, ProgressKhuwani.id, 2, s, <<"A">>) : s \in 1..n2}

InitProgress ==
    /\ InitAuth
    /\ khuwanies = {ProgressKhuwani, Khuwani2}
    /\ nextKhuwaniId = 3
    /\ \E n1 \in 0..MaxSipara, n2 \in 0..1 :
          /\ claims = ProgressClaims(n1, n2)
          /\ nextClaimId = n1 + n2 + 1
    /\ reqs = [r \in Reqs |-> Idle]

NextProgress ==
    \/ \E r \in ProgressReqs : ViewGetKhuwani(r, ProgressKhuwani.slug)
    \/ \E r \in ProgressReqs : ViewGetClaims(r)
    \/ \E r \in ProgressReqs, q \in 1..3 : ParticipantRender(r, q)
    \/ \E r \in ProgressReqs : ListArrive(r, "b1")
    \/ \E r \in ProgressReqs : ListGetKhuwanies(r)
    \/ \E r \in ProgressReqs : \E k \in reqs[r].list : ListGetClaims(r, k)
    \/ \E r \in ProgressReqs : DashboardRender(r)
    \/ \E r \in ProgressReqs, body \in ProgressBodies :
          ClaimGetKhuwani(r, ProgressKhuwani.slug, body)
    \/ \E r \in ProgressReqs : ClaimCreateClaim(r)
    \/ \E r \in ProgressReqs : ResetArrive(r, "b1", ProgressKhuwani.id)
    \/ \E r \in ProgressReqs : ResetGetKhuwani(r)
    \/ \E r \in ProgressReqs : ResetDeleteAllClaims(r)
    \/ \E r \in ProgressReqs : AddQuranArrive(r, "b1", ProgressKhuwani.id)
    \/ \E r \in ProgressReqs : AddQuranGetKhuwani(r)
    \/ \E r \in ProgressReqs : AddQuranIncrement(r)

SpecProgress == InitProgress /\ [][NextProgress]_vars

(***************************************************************************)
(* SpecSlugs: create calls for one name against a store that holds a       *)
(* khuwani under every slug the name can get, under one of them, or under  *)
(* none.                                                                   *)
(***************************************************************************)
\* Requests in one run of create.
MaxSlugReqs == 2

SlugReqs == 1..MaxSlugReqs
SlugName == <<"H", "a">>
TakenKhuwani(id, random) ==
    [id |-> id, organizerId |-> 2, slug |-> generateSlug(SlugName, random),
     marhoomName |-> <<"Z">>, numQurans |-> 2]
TakenX == TakenKhuwani(1, <<"x">>)
TakenY == TakenKhuwani(2, <<"y">>)
SlugStores == {{TakenX, TakenY}, {TakenX}, {}}

InitSlugs ==
    /\ InitAuth
    /\ \E store \in SlugStores :
          /\ khuwanies = store
          /\ claims = {Claim(k.id, k.id, 2, 1, <<"A">>) : k \in store}
    /\ nextKhuwaniId = 3
    /\ nextClaimId = 3
    /\ reqs = [r \in Reqs |-> Idle]

NextSlugs ==
    \/ \E r \in SlugReqs, b \in Owners, x \in Randoms : CreateArrive(r, b, SlugName, x)
    \/ \E r \in SlugReqs, x \in Randoms : CreateSlugExists(r, x)
    \/ \E r \in SlugReqs : CreateKhuwani(r)

SpecSlugs == InitSlugs /\ [][NextSlugs]_vars

(***************************************************************************)
(* SpecNames: one create call by organizer 1, for every name of up to      *)
(* MaxNameChars characters over an upper-case and a lower-case letter, a   *)
(* digit, the space, the hyphen and another symbol, and for one name of    *)
(* three words.                                                            *)
(***************************************************************************)
\* Characters of the enumerated names.
MaxNameChars == 3

NameReqs == {1}
NameAlphabet == {"A", "b", "1", " ", "-", "!"}
HajiAbdulRehman ==
    <<"H", "a", "j", "i", " ", "A", "b", "d", "u", "l", " ", "R", "e", "h", "m",
      "a", "n">>
Names ==
    UNION {[1..n -> NameAlphabet] : n \in 0..MaxNameChars} \cup {HajiAbdulRehman}

NextNames ==
    \/ \E r \in NameReqs, n \in Names, x \in Randoms : CreateArrive(r, "b1", n, x)
    \/ \E r \in NameReqs, x \in Randoms : CreateSlugExists(r, x)
    \/ \E r \in NameReqs : CreateKhuwani(r)

SpecNames == Init /\ [][NextNames]_vars

(***************************************************************************)
(* SpecTotals: the two pages beside add-quran and claim calls on khuwani   *)
(* 1, which starts with one or two Qurans, each of them fully claimed or   *)
(* without a claim.                                                        *)
(***************************************************************************)
\* Requests in one run of the pages beside add-quran and claim.
MaxTotalsReqs == 3

TotalsReqs == 1..MaxTotalsReqs
TotalsBodies ==
    [quranNumber : {1, 2, 3}, siparaNumber : {MinSipara}, participantName : {<<"A">>}]

\* the siparas of the Qurans in full, all claimed, numbered in order
FullClaims(full) ==
    {Claim((q - 1) * MaxSipara + s, Khuwani1.id, q, s, <<"A">>) :
        q \in full, s \in MinSipara..MaxSipara}

InitTotals ==
    /\ InitAuth
    /\ \E n \in 1..2 : \E full \in SUBSET (1..n) :
          /\ khuwanies = {[Khuwani1 EXCEPT !.numQurans = n], Khuwani2}
          /\ claims = FullClaims(full)
    /\ nextKhuwaniId = 3
    /\ nextClaimId = 2 * MaxSipara + 1
    /\ reqs = [r \in Reqs |-> Idle]

NextTotals ==
    \/ \E r \in TotalsReqs : ViewGetKhuwani(r, Khuwani1.slug)
    \/ \E r \in TotalsReqs : ViewGetClaims(r)
    \/ \E r \in TotalsReqs, q \in 1..3 : ParticipantRender(r, q)
    \/ \E r \in TotalsReqs : ListArrive(r, "b1")
    \/ \E r \in TotalsReqs : ListGetKhuwanies(r)
    \/ \E r \in TotalsReqs : \E k \in reqs[r].list : ListGetClaims(r, k)
    \/ \E r \in TotalsReqs : DashboardRender(r)
    \/ \E r \in TotalsReqs, body \in TotalsBodies :
          ClaimGetKhuwani(r, Khuwani1.slug, body)
    \/ \E r \in TotalsReqs : ClaimCreateClaim(r)
    \/ \E r \in TotalsReqs : AddQuranArrive(r, "b1", Khuwani1.id)
    \/ \E r \in TotalsReqs : AddQuranGetKhuwani(r)
    \/ \E r \in TotalsReqs : AddQuranIncrement(r)

SpecTotals == InitTotals /\ [][NextTotals]_vars

(***************************************************************************)
(* SpecListing: the listing of either organizer beside create calls of     *)
(* either organizer and claim calls on either khuwani.                     *)
(***************************************************************************)
\* Requests in one run of the listing beside create and claim.
MaxListingReqs == 2

ListingReqs == 1..MaxListingReqs
ListingBodies ==
    [quranNumber : {1}, siparaNumber : {1, 2}, participantName : {<<"A">>}]

NextListing ==
    \/ \E r \in ListingReqs, b \in Owners : ListArrive(r, b)
    \/ \E r \in ListingReqs : ListGetKhuwanies(r)
    \/ \E r \in ListingReqs : \E k \in reqs[r].list : ListGetClaims(r, k)
    \/ \E r \in ListingReqs, b \in Owners, n \in MarhoomNames, x \in Randoms :
          CreateArrive(r, b, n, x)
    \/ \E r \in ListingReqs, x \in Randoms : CreateSlugExists(r, x)
    \/ \E r \in ListingReqs : CreateKhuwani(r)
    \/ \E r \in ListingReqs, slug \in Slugs, body \in ListingBodies :
          ClaimGetKhuwani(r, slug, body)
    \/ \E r \in ListingReqs : ClaimCreateClaim(r)

SpecListing == Init /\ [][NextListing]_vars

(***************************************************************************)
(* SpecSession: login, logout, register and the listing from two browsers, *)
(* neither signed in at the start, with one organizer registered.          *)
(***************************************************************************)
\* Requests in one run of login, logout, register and the listing.
MaxSessionReqs == 3

SessionReqs == 1..MaxSessionReqs
LoginBodies ==
    [email : {RegisteredEmail, NewEmail}, password : {Password6, Other6}]
        \cup [email : {RegisteredEmail}, password : {Password5}]
SessionRegisterBodies ==
    [email : {NewEmail}, password : {Password6}, confirmPassword : {Password6, Other6}]

NextSession ==
    \/ \E r \in SessionReqs, b \in RegisterBrowsers, body \in LoginBodies :
          LoginGetOrganizer(r, b, body)
    \/ \E r \in SessionReqs : LoginCompare(r)
    \/ \E r \in SessionReqs, b \in RegisterBrowsers : Logout(r, b)
    \/ \E r \in SessionReqs, b \in RegisterBrowsers, body \in SessionRegisterBodies :
          RegisterGetOrganizer(r, b, body)
    \/ \E r \in SessionReqs : RegisterCreateOrganizer(r)
    \/ \E r \in SessionReqs, b \in RegisterBrowsers : ListArrive(r, b)
    \/ \E r \in SessionReqs : ListGetKhuwanies(r)
    \/ \E r \in SessionReqs : \E k \in reqs[r].list : ListGetClaims(r, k)

SpecSession == InitRegister /\ [][NextSession]_vars

(***************************************************************************)
(* Properties                                                              *)
(***************************************************************************)
Done(r) == reqs[r].pc = "done"

\* the claims of cs on sipara s of Quran q of khuwani id
Holding(cs, id, q, s) ==
    {c \in cs : c.khuwaniId = id /\ c.quranNumber = q /\ c.siparaNumber = s}

\* request r, of the given kind, names the slot request p names
SameSlot(r, kind, p) ==
    /\ reqs[r].kind = kind
    /\ reqs[r].k.id = reqs[p].k.id
    /\ reqs[r].body.quranNumber = reqs[p].body.quranNumber
    /\ reqs[r].body.siparaNumber = reqs[p].body.siparaNumber

\* a claim call on an existing khuwani with a well-formed body and a Quran
\* number in range when it looked the khuwani up
ValidClaim(r) ==
    /\ reqs[r].kind = "claim"
    /\ reqs[r].k # NoKhuwani
    /\ claimBodySchema(reqs[r].body)
    /\ reqs[r].body.quranNumber <= reqs[r].k.numQurans

\* the answered claim calls on the slot of request p
Racers(p) == {r \in Reqs : ValidClaim(r) /\ SameSlot(r, "claim", p) /\ Done(r)}

\* the slot of request p was free at the start and no release names it
FreeAndNeverReleased(p) ==
    /\ Holding(ClaimInitialClaims, reqs[p].k.id, reqs[p].body.quranNumber,
               reqs[p].body.siparaNumber) = {}
    /\ \A u \in Reqs : ~ SameSlot(u, "unclaim", p)

\* C1: of the claim calls that race for one slot, free at the start and
\* never released, exactly one succeeds (200) and every other one is answered
\* 409 with the slot-taken message, in every interleaving of their steps.
C1_OneClaimWins ==
    \A p \in Reqs :
        (ValidClaim(p) /\ Done(p) /\ FreeAndNeverReleased(p)) =>
            /\ Cardinality({r \in Racers(p) : reqs[r].status = 200}) = 1
            /\ \A r \in Racers(p) :
                  \/ reqs[r].status = 200
                  \/ reqs[r].status = 409 /\ reqs[r].message = SlotTaken

\* three answered claim calls raced for one free slot
C1_Witness ==
    \E p \in Reqs :
        /\ ValidClaim(p) /\ Done(p) /\ FreeAndNeverReleased(p)
        /\ Cardinality(Racers(p)) >= 3
        /\ \E r \in Racers(p) : reqs[r].status = 409

\* C2: in every reachable state no two rows of claims share khuwani, Quran
\* number and sipara number.
C2_UniqueTriple ==
    \A c \in claims, d \in claims :
        (/\ c.khuwaniId = d.khuwaniId
         /\ c.quranNumber = d.quranNumber
         /\ c.siparaNumber = d.siparaNumber) => c = d

\* a claim call was turned away from a slot that is held
C2_Witness ==
    \E r \in Reqs :
        /\ ValidClaim(r) /\ Done(r) /\ reqs[r].status = 409
        /\ Holding(claims, reqs[r].k.id, reqs[r].body.quranNumber,
                   reqs[r].body.siparaNumber) # {}

\* C3: the insert of a claim call on a slot that is held answers 409 with
\* the slot-taken message and changes no row of claims and no khuwani.
C3_TakenIsNoOp ==
    [][\A r \in Reqs :
          (/\ reqs[r].kind = "claim" /\ reqs[r].pc = "createClaim"
           /\ reqs'[r].pc = "done"
           /\ Holding(claims, reqs[r].k.id, reqs[r].body.quranNumber,
                      reqs[r].body.siparaNumber) # {})
          => /\ reqs'[r].status = 409
             /\ reqs'[r].message = SlotTaken
             /\ claims' = claims
             /\ khuwanies' = khuwanies]_vars

\* a claim call under another name was answered 409 and the holder's row
\* is still there
C3_Witness ==
    \E r \in Reqs :
        /\ ValidClaim(r) /\ Done(r) /\ reqs[r].status = 409
        /\ \E c \in Holding(claims, reqs[r].k.id, reqs[r].body.quranNumber,
                            reqs[r].body.siparaNumber) :
              c.participantName # ParsedName(reqs[r].body)

\* request r answers in this step
Answers(r) == reqs[r].pc # "done" /\ reqs'[r].pc = "done"

\* the khuwani row request r read is still in the table
KhuwaniExists(r) == \E k \in khuwanies : k.id = reqs[r].k.id

\* C4: a release answered 200 leaves its slot without a claim, and the
\* insert of a claim call on a slot without a claim (of a khuwani that
\* exists) answers 200 and leaves the slot held under the name of that call,
\* whoever held it before.
C4_ReleasedSlotIsFree ==
    [][\A r \in Reqs :
          /\ (/\ reqs[r].kind = "unclaim" /\ reqs[r].pc = "deleteClaim"
              /\ reqs'[r].pc = "done" /\ reqs'[r].status = 200)
             => Holding(claims', reqs[r].k.id, reqs[r].body.quranNumber,
                        reqs[r].body.siparaNumber) = {}
          /\ (/\ reqs[r].kind = "claim" /\ reqs[r].pc = "createClaim"
              /\ reqs'[r].pc = "done"
              /\ KhuwaniExists(r)
              /\ Holding(claims, reqs[r].k.id, reqs[r].body.quranNumber,
                         reqs[r].body.siparaNumber) = {})
             => /\ reqs'[r].status = 200
                /\ \E c \in claims' :
                      /\ c.participantName = Trim(reqs[r].body.participantName)
                      /\ Holding(claims', reqs[r].k.id, reqs[r].body.quranNumber,
                                 reqs[r].body.siparaNumber) = {c}]_vars

\* a slot held at the start was released under the holder's name and then
\* claimed under another name, which it now holds
C4_Witness ==
    \E u \in Reqs, r \in Reqs :
        /\ reqs[u].kind = "unclaim" /\ Done(u) /\ reqs[u].status = 200
        /\ SameSlot(r, "claim", u) /\ Done(r) /\ reqs[r].status = 200
        /\ \E c \in Holding(ClaimInitialClaims, reqs[u].k.id, reqs[u].body.quranNumber,
                            reqs[u].body.siparaNumber) :
              /\ c.participantName = ParsedName(reqs[u].body)
              /\ c.participantName # ParsedName(reqs[r].body)
        /\ \E c \in Holding(claims, reqs[r].k.id, reqs[r].body.quranNumber,
                            reqs[r].body.siparaNumber) :
              c.participantName = ParsedName(reqs[r].body)

\* a well-formed release call on an existing khuwani
ValidRelease(r) ==
    /\ reqs[r].kind = "unclaim"
    /\ reqs[r].k # NoKhuwani
    /\ claimBodySchema(reqs[r].body)

\* every release of the slot of request p has the arguments of p, and no
\* claim call names the slot
OnlyThisRelease(p) ==
    /\ \A u \in Reqs : SameSlot(u, "unclaim", p) => reqs[u].body = reqs[p].body
    /\ \A c \in Reqs : ~ SameSlot(c, "claim", p)

\* the answered release calls on the slot of request p
Releases(p) == {u \in Reqs : SameSlot(u, "unclaim", p) /\ Done(u)}

\* the claim the arguments of release p match, as held at the start
MatchedAtStart(p) ==
    {c \in Holding(ClaimInitialClaims, reqs[p].k.id, reqs[p].body.quranNumber,
                   reqs[p].body.siparaNumber) :
        c.participantName = Trim(reqs[p].body.participantName)}

\* C5: of the release calls with identical arguments on a slot nobody else
\* touches, one after the other or interleaved, exactly one is answered 200
\* when a matching claim existed and none when it did not; every other one is
\* answered with the could-not-release message.
C5_OneReleaseWins ==
    \A p \in Reqs :
        (ValidRelease(p) /\ Done(p) /\ OnlyThisRelease(p)) =>
            /\ Cardinality({u \in Releases(p) : reqs[u].status = 200})
                  = (IF MatchedAtStart(p) # {} THEN 1 ELSE 0)
            /\ \A u \in Releases(p) :
                  \/ reqs[u].status = 200
                  \/ reqs[u].status = 400 /\ reqs[u].message = CouldNotRelease

\* three answered releases with identical arguments of a claim held at the
\* start
C5_Witness ==
    \E p \in Reqs :
        /\ ValidRelease(p) /\ Done(p) /\ OnlyThisRelease(p)
        /\ MatchedAtStart(p) # {}
        /\ Cardinality(Releases(p)) >= 3
        /\ \E u \in Releases(p) : reqs[u].status = 400

\* the rows of claims on the slot of the release r that answers in this step
HeldForRelease(r) ==
    Holding(claims, reqs'[r].k.id, reqs'[r].body.quranNumber,
            reqs'[r].body.siparaNumber)

\* C6 as stated: a release call is answered 200 and deletes a claim exactly
\* when the khuwani holds a claim on that Quran and sipara whose stored name
\* is the name as sent, character for character.
C6_ExactNameAsStated ==
    [][\A r \in Reqs :
          (Answers(r) /\ reqs'[r].kind = "unclaim") =>
              LET exact == {c \in HeldForRelease(r) :
                              c.participantName = reqs'[r].body.participantName}
              IN  /\ reqs'[r].status = 200 <=> exact # {}
                  /\ claims' = claims \ exact]_vars

\* C6 amended: a release call is answered 200 and deletes a claim exactly
\* when the name as sent is 1 to 100 characters long and the khuwani holds a
\* claim on that Quran and sipara whose stored name is the name as sent
\* without its leading and trailing whitespace, compared case-sensitively;
\* otherwise it deletes nothing.
C6_TrimmedName ==
    [][\A r \in Reqs :
          (Answers(r) /\ reqs'[r].kind = "unclaim") =>
              LET match == IF claimBodySchema(reqs'[r].body)
                           THEN {c \in HeldForRelease(r) :
                                   c.participantName
                                       = Trim(reqs'[r].body.participantName)}
                           ELSE {}
              IN  /\ reqs'[r].status = 200 <=> match # {}
                  /\ claims' = claims \ match]_vars

\* a release under a padded name was answered 200 and one under the name in
\* the other case was answered 400
C6_Witness ==
    \E r \in Reqs, u \in Reqs :
        /\ ValidRelease(r) /\ Done(r) /\ reqs[r].status = 200
        /\ reqs[r].body.participantName # Trim(reqs[r].body.participantName)
        /\ SameSlot(u, "unclaim", r) /\ Done(u) /\ reqs[u].status = 400
        /\ reqs[u].body.participantName = <<"a">>

\* C7: the delete of a release call that finds no claim on its slot under
\* its name (a free slot, or a slot held under another name) changes no row
\* of claims and no khuwani, and answers 400 with the could-not-release
\* message, never 500.
C7_MismatchIsNoOp ==
    [][\A r \in Reqs :
          (/\ reqs[r].kind = "unclaim" /\ reqs[r].pc = "deleteClaim"
           /\ reqs'[r].pc = "done"
           /\ \A c \in Holding(claims, reqs[r].k.id, reqs[r].body.quranNumber,
                               reqs[r].body.siparaNumber) :
                 c.participantName # Trim(reqs[r].body.participantName))
          => /\ reqs'[r].status = 400
             /\ reqs'[r].message = CouldNotRelease
             /\ claims' = claims
             /\ khuwanies' = khuwanies]_vars

\* one release of a free slot and one of a slot held under another name were
\* both answered 400, and the held slot is still held
C7_Witness ==
    \E r \in Reqs, u \in Reqs :
        /\ ValidRelease(r) /\ Done(r) /\ reqs[r].status = 400
        /\ reqs[r].message = CouldNotRelease
        /\ Holding(claims \cup ClaimInitialClaims, reqs[r].k.id,
                   reqs[r].body.quranNumber, reqs[r].body.siparaNumber) = {}
        /\ ValidRelease(u) /\ Done(u) /\ reqs[u].status = 400
        /\ reqs[u].message = CouldNotRelease
        /\ \E c \in Holding(claims, reqs[u].k.id, reqs[u].body.quranNumber,
                            reqs[u].body.siparaNumber) :
              c.participantName # ParsedName(reqs[u].body)

\* the add-quran calls on khuwani id that were answered 200
AddedTo(id) ==
    {r \in Reqs : /\ reqs[r].kind = "add-quran" /\ Done(r)
                  /\ reqs[r].status = 200 /\ reqs[r].id = id}

\* C8: every khuwani counts one Quran more than the 1 it was created with
\* for each add-quran call on it that was answered 200, however the calls
\* interleave with each other and with the other routes.
C8_NoLostIncrement ==
    \A k \in khuwanies : k.numQurans = 1 + Cardinality(AddedTo(k.id))

\* two add-quran calls that both read the khuwani at one Quran have both
\* been answered, and it has three
C8_Witness ==
    \E k \in khuwanies : \E r \in AddedTo(k.id), p \in AddedTo(k.id) :
        /\ r # p
        /\ reqs[r].k.numQurans = 1 /\ reqs[p].k.numQurans = 1
        /\ k.numQurans = 3

\* request r increments khuwani id in this step
Increments(r, id) ==
    /\ reqs[r].kind = "add-quran" /\ reqs[r].pc = "incrementQurans"
    /\ reqs'[r].pc = "done" /\ reqs[r].id = id

\* C9: every khuwani has at least one Quran in every reachable state, and a
\* step changes the count of a khuwani only by adding 1 to it, in the
\* increment of an add-quran call on that khuwani.
C9_CountPositiveMonotone ==
    /\ [](\A k \in khuwanies : k.numQurans >= 1)
    /\ [][\A k \in khuwanies, n \in khuwanies' :
             (k.id = n.id /\ n.numQurans # k.numQurans) =>
                 /\ n.numQurans = k.numQurans + 1
                 /\ \E r \in Reqs : Increments(r, k.id)]_vars

\* a khuwani created by the create route exists beside one that has grown
C9_Witness ==
    /\ \E k \in khuwanies : k.id >= 3 /\ k.numQurans = 1
    /\ \E k \in khuwanies : k.numQurans >= 2

\* C10: the delete of a reset call removes exactly the claims of its khuwani
\* and changes no khuwani row (count, slug, owner), and the insert of a claim
\* call on a slot without a claim, of a khuwani that exists, answers 200 and
\* adds the claim.
C10_ResetFrame ==
    [][\A r \in Reqs :
          /\ (/\ reqs[r].kind = "reset" /\ reqs[r].pc = "deleteAllClaims"
              /\ reqs'[r].pc = "done")
             => /\ reqs'[r].status = 200
                /\ claims' = {c \in claims : c.khuwaniId # reqs[r].id}
                /\ khuwanies' = khuwanies
          /\ (/\ reqs[r].kind = "claim" /\ reqs[r].pc = "createClaim"
              /\ reqs'[r].pc = "done"
              /\ KhuwaniExists(r)
              /\ Holding(claims, reqs[r].k.id, reqs[r].body.quranNumber,
                         reqs[r].body.siparaNumber) = {})
             => /\ reqs'[r].status = 200
                /\ Cardinality(Holding(claims', reqs[r].k.id, reqs[r].body.quranNumber,
                                       reqs[r].body.siparaNumber)) = 1]_vars

\* khuwani 1 was reset by its owner, a claim call on its sipara held at the
\* start then succeeded, and the claim of khuwani 2 is still there
C10_Witness ==
    \E r \in Reqs, p \in Reqs :
        /\ reqs[r].kind = "reset" /\ Done(r) /\ reqs[r].status = 200 /\ reqs[r].id = 1
        /\ ValidClaim(p) /\ Done(p) /\ reqs[p].status = 200 /\ reqs[p].k.id = 1
        /\ Holding(InitialClaims, 1, reqs[p].body.quranNumber,
                   reqs[p].body.siparaNumber) # {}
        /\ Khuwani1 \in khuwanies
        /\ Holding(InitialClaims, 2, 1, 1) \subseteq claims

\* delete call d was answered 200: the khuwani row it read is gone
DeletedBy(d) == reqs[d].kind = "delete" /\ Done(d) /\ reqs[d].status = 200

\* request r looks its khuwani up in this step: by slug when a participant
\* call arrives, by id after requireAuth has let an organizer call through
LooksUp(r) ==
    \/ reqs[r].pc = "idle" /\ reqs'[r].kind \in {"claim", "unclaim"}
    \/ reqs[r].pc = "getKhuwaniById" /\ reqs'[r].pc # "getKhuwaniById"

\* the call of r names a khuwani that a completed delete removed: by its id,
\* or by its slug while no khuwani created since carries that slug
NamesDeleted(r) ==
    \E d \in Reqs :
        /\ DeletedBy(d)
        /\ \/ /\ reqs'[r].kind \in {"delete", "reset", "add-quran"}
              /\ reqs'[r].id = reqs[d].id
           \/ /\ reqs'[r].kind \in {"claim", "unclaim"}
              /\ reqs'[r].slug = reqs[d].k.slug
              /\ ~ \E k \in khuwanies : k.slug = reqs[d].k.slug

\* C11: once a delete call has been answered 200, every claim, release,
\* add-quran, reset and delete call that looks the deleted khuwani up
\* afterwards (by its id or by its slug) is answered 404 "Khuwani not found"
\* at that lookup, and changes no khuwani and no claim.
C11_DeletedIsNotFound ==
    [][\A r \in Reqs :
          (LooksUp(r) /\ NamesDeleted(r)) =>
              /\ reqs'[r].pc = "done"
              /\ reqs'[r].status = 404
              /\ reqs'[r].message = KhuwaniNotFound
              /\ khuwanies' = khuwanies
              /\ claims' = claims]_vars

\* a call on a khuwani was answered 404 after the khuwani's owner's delete
\* call had removed the row, which the call no longer found
C11_Witness ==
    \E d \in Reqs, r \in Reqs :
        /\ DeletedBy(d) /\ r # d /\ Done(r)
        /\ reqs[r].status = 404 /\ reqs[r].k = NoKhuwani
        /\ \/ /\ reqs[r].kind \in {"delete", "reset", "add-quran"}
              /\ reqs[r].id = reqs[d].id
              /\ reqs[r].organizerId = reqs[d].organizerId
           \/ /\ reqs[r].kind \in {"claim", "unclaim"}
              /\ reqs[r].slug = reqs[d].k.slug

\* delete call d is between the two statements of deleteKhuwani: the row of
\* its khuwani is in the table and a claim the khuwani held is not
HalfDeleted(d) ==
    /\ reqs[d].kind = "delete" /\ reqs[d].pc = "deleteKhuwani"
    /\ \E k \in khuwanies : k.id = reqs[d].id
    /\ \E c \in InitialClaims : c.khuwaniId = reqs[d].id /\ c \notin claims

\* reader r reads khuwani id from the store in this step: its row (the view's
\* lookup, the listing's rows) or its claims
Observes(r, id) ==
    \/ /\ reqs[r].pc = "idle" /\ reqs'[r].kind = "view" /\ reqs'[r].k.id = id
    \/ /\ reqs[r].kind = "view" /\ reqs[r].pc = "getClaimsForKhuwani"
       /\ reqs'[r].pc = "done" /\ reqs[r].k.id = id
    \/ /\ reqs[r].kind = "list" /\ reqs[r].pc = "getKhuwaniesForOrganizer"
       /\ \E k \in reqs'[r].list : k.id = id
    \/ /\ reqs[r].kind = "list" /\ reqs[r].pc = "getClaimsForKhuwani"
       /\ \E e \in reqs'[r].result \ reqs[r].result : e.k.id = id

\* C12 as stated: no public view and no organizer listing reads a khuwani
\* from the store while a delete of it is in progress that has removed the
\* claims the khuwani held and not yet its row.
C12_DeleteIsOneUnit ==
    [][\A r \in Reqs, d \in Reqs : HalfDeleted(d) => ~ Observes(r, reqs[d].id)]_vars

\* C13: in every reachable state, the states between the two statements of a
\* delete and those in which a claim call has read a khuwani that is gone by
\* the time of its insert included, every row of claims refers to a row of
\* khuwanies.
C13_ClaimHasKhuwani ==
    \A c \in claims : \E k \in khuwanies : k.id = c.khuwaniId

\* a claim call read a khuwani, the khuwani's delete completed, and the
\* call's insert was then refused
C13_Witness ==
    \E r \in Reqs, d \in Reqs :
        /\ DeletedBy(d)
        /\ ValidClaim(r) /\ Done(r) /\ reqs[r].k.id = reqs[d].id
        /\ reqs[r].status = 500 /\ reqs[r].message = FailedToClaim

OwnerKinds == {"delete", "reset", "add-quran"}

\* C14: the lookup of an add-quran, reset or delete call is answered 404
\* "Khuwani not found" exactly when no khuwani has the given id or its
\* organizer is not the caller, and otherwise the call goes on to its
\* statement; no step of such a call made by an organizer who does not own
\* the khuwani changes a khuwani or a claim.
C14_OwnerOnly ==
    [][\A r \in Reqs :
          /\ (reqs[r].kind \in OwnerKinds /\ reqs[r].pc = "getKhuwaniById"
              /\ reqs'[r] # reqs[r])
             => LET k == getKhuwaniById(reqs[r].id)
                    owned == k # NoKhuwani /\ k.organizerId = reqs[r].organizerId
                IN  IF owned
                    THEN reqs'[r].pc \notin {"done", "getKhuwaniById"}
                    ELSE /\ reqs'[r].pc = "done"
                         /\ reqs'[r].status = 404
                         /\ reqs'[r].message = KhuwaniNotFound
          /\ (/\ reqs'[r] # reqs[r] /\ reqs'[r].kind \in OwnerKinds
              /\ \E k \in khuwanies : /\ k.id = reqs'[r].id
                                      /\ k.organizerId # reqs'[r].organizerId)
             => khuwanies' = khuwanies /\ claims' = claims]_vars

\* an organizer's call on the other organizer's khuwani was answered 404,
\* and that khuwani and its claim are as they were
C14_Witness ==
    \E r \in Reqs :
        /\ reqs[r].kind \in OwnerKinds /\ Done(r) /\ reqs[r].status = 404
        /\ reqs[r].k # NoKhuwani /\ reqs[r].organizerId # 0
        /\ reqs[r].k.organizerId # reqs[r].organizerId
        /\ reqs[r].k \in khuwanies
        /\ Holding(InitialClaims, reqs[r].id, 1, 1) \subseteq claims

OrganizerKinds == {"list", "create", "delete", "reset", "add-quran"}

\* C15: a listing, create, delete, reset or add-quran request that arrives
\* without an organizer identity is answered 401 "Not authenticated" in the
\* step it arrives in, which changes no khuwani and no claim; no request
\* without an identity is ever past that step.
C15_NoIdentityIsRejected ==
    /\ [](\A r \in Reqs :
             (reqs[r].kind \in OrganizerKinds /\ reqs[r].organizerId = 0) =>
                 reqs[r].pc = "done" /\ reqs[r].status = 401)
    /\ [][\A r \in Reqs :
             (/\ reqs[r].pc = "idle" /\ reqs'[r].kind \in OrganizerKinds
              /\ reqs'[r].organizerId = 0)
             => /\ reqs'[r].pc = "done"
                /\ reqs'[r].status = 401
                /\ reqs'[r].message = NotAuthenticated
                /\ khuwanies' = khuwanies /\ nextKhuwaniId' = nextKhuwaniId
                /\ claims' = claims /\ nextClaimId' = nextClaimId]_vars

\* a create and a delete request without an identity were both answered 401,
\* and the tables are as they were at the start
C15_Witness ==
    \E r \in Reqs, p \in Reqs :
        /\ reqs[r].kind = "create" /\ reqs[r].organizerId = 0
        /\ Done(r) /\ reqs[r].status = 401
        /\ reqs[p].kind = "delete" /\ reqs[p].organizerId = 0
        /\ Done(p) /\ reqs[p].status = 401
        /\ khuwanies = {Khuwani1, Khuwani2} /\ claims = InitialClaims

\* the body names a Quran below 1 or above the count of k, or a sipara
\* outside 1..30
InvalidSlot(body, k) ==
    \/ body.quranNumber < 1
    \/ body.quranNumber > k.numQurans
    \/ body.siparaNumber < MinSipara
    \/ body.siparaNumber > MaxSipara

\* C16: a claim call on an existing khuwani whose body names a Quran below 1
\* or above the khuwani's count at the lookup, or a sipara outside 1..30, is
\* answered 400 (the schema's message or "Invalid Quran number") in the step
\* it arrives in: it never gets to the insert, adds no claim, and leaves the
\* tables and the serial of claims as they were.
C16_InvalidSlotIsRejected ==
    [][\A r \in Reqs :
          (/\ reqs[r].pc = "idle" /\ reqs'[r].kind = "claim"
           /\ getKhuwaniBySlug(reqs'[r].slug) # NoKhuwani
           /\ InvalidSlot(reqs'[r].body, getKhuwaniBySlug(reqs'[r].slug)))
          => /\ reqs'[r].pc = "done"
             /\ reqs'[r].status = 400
             /\ reqs'[r].message \in {ZodMessage, InvalidQuranNumber}
             /\ claims' = claims /\ nextClaimId' = nextClaimId
             /\ khuwanies' = khuwanies]_vars

\* a claim of Quran 2 on a khuwani with one Quran was answered 400 "Invalid
\* Quran number" and a claim of sipara 31 was answered 400 by the schema; the
\* claims are those of the start
C16_Witness ==
    \E r \in Reqs, p \in Reqs :
        /\ reqs[r].kind = "claim" /\ Done(r) /\ reqs[r].status = 400
        /\ reqs[r].message = InvalidQuranNumber
        /\ reqs[r].body.quranNumber = 2 /\ reqs[r].k.numQurans = 1
        /\ reqs[p].kind = "claim" /\ Done(p) /\ reqs[p].status = 400
        /\ reqs[p].message = ZodMessage
        /\ reqs[p].body.siparaNumber = MaxSipara + 1
        /\ claims = InitialClaims /\ nextClaimId = 3

\* C17: in every reachable state every row of claims has a Quran number from
\* 1 to the count of its khuwani and a sipara number from 1 to 30, also when
\* the count the claim call read is no longer the khuwani's count at the
\* insert.
C17_ClaimInRange ==
    \A c \in claims :
        \E k \in khuwanies :
            /\ k.id = c.khuwaniId
            /\ c.quranNumber >= 1 /\ c.quranNumber <= k.numQurans
            /\ c.siparaNumber >= MinSipara /\ c.siparaNumber <= MaxSipara

\* a claim call that read the khuwani at one Quran has stored its claim, the
\* khuwani has two Qurans, and a claim on Quran 2 is stored as well
C17_Witness ==
    \E r \in Reqs, p \in Reqs :
        /\ ValidClaim(r) /\ Done(r) /\ reqs[r].status = 200
        /\ reqs[r].k.numQurans = 1
        /\ ValidClaim(p) /\ Done(p) /\ reqs[p].status = 200
        /\ reqs[p].body.quranNumber = 2
        /\ \E k \in khuwanies : k.id = reqs[r].k.id /\ k.numQurans = 2
        /\ Holding(claims, reqs[r].k.id, 1, MaxSipara) # {}
        /\ Holding(claims, reqs[p].k.id, 2, MaxSipara) # {}

\* C18 as stated: in every reachable state every row of claims has a
\* participant name of 1 to 100 characters, whatever text the claim calls
\* sent.
C18_NameNonEmptyAtMost100 ==
    \A c \in claims :
        /\ Len(c.participantName) >= MinNameLen
        /\ Len(c.participantName) <= MaxNameLen

\* C19: the insert of a create call that is answered 200 adds exactly one
\* row to khuwanies, with an id no row had, the caller as organizer, the name
\* sent, one Quran and no claim, and changes no other row of khuwanies and no
\* row of claims; a create call with an empty name is answered 400 in the
\* step it arrives in, which changes no table and no serial.
C19_CreateFrame ==
    [][\A r \in Reqs :
          /\ (/\ reqs[r].kind = "create" /\ reqs[r].pc = "createKhuwani"
              /\ reqs'[r].pc = "done" /\ reqs'[r].status = 200)
             => \E n \in khuwanies' :
                   /\ khuwanies' = khuwanies \cup {n}
                   /\ \A k \in khuwanies : k.id # n.id
                   /\ n.organizerId = reqs[r].organizerId
                   /\ n.marhoomName = reqs[r].marhoomName
                   /\ n.numQurans = 1
                   /\ claims' = claims
                   /\ \A c \in claims' : c.khuwaniId # n.id
          /\ (/\ reqs[r].pc = "idle" /\ reqs'[r].kind = "create"
              /\ reqs'[r].organizerId # 0 /\ reqs'[r].marhoomName = <<>>)
             => /\ reqs'[r].pc = "done"
                /\ reqs'[r].status = 400
                /\ khuwanies' = khuwanies /\ nextKhuwaniId' = nextKhuwaniId
                /\ claims' = claims /\ nextClaimId' = nextClaimId]_vars

\* the owner's create call with a name was answered 200 and its row is in
\* the table beside the two of the start, and the owner's create call with
\* the empty name was answered 400
C19_Witness ==
    \E r \in Reqs, p \in Reqs :
        /\ reqs[r].kind = "create" /\ Done(r) /\ reqs[r].status = 200
        /\ reqs[r].k \in khuwanies /\ reqs[r].k.numQurans = 1
        /\ khuwanies = {Khuwani1, Khuwani2, reqs[r].k}
        /\ claims = InitialClaims
        /\ reqs[p].kind = "create" /\ Done(p) /\ reqs[p].status = 400
        /\ reqs[p].organizerId # 0 /\ reqs[p].marhoomName = <<>>

\* C20: in every reachable state no two rows of khuwanies have the same
\* slug, also when two create calls have drawn the same slug and both have
\* found it free before either inserts.
C20_UniqueSlug ==
    \A k \in khuwanies, j \in khuwanies : k.slug = j.slug => k = j

\* two create calls drew the same slug and neither found it taken; one was
\* answered 200 and the other 500
C20_Witness ==
    \E r \in Reqs, p \in Reqs :
        /\ reqs[r].kind = "create" /\ Done(r) /\ reqs[r].status = 200
        /\ reqs[p].kind = "create" /\ Done(p) /\ reqs[p].status = 500
        /\ reqs[p].message = FailedToCreate
        /\ reqs[r].attempts = 0 /\ reqs[p].attempts = 0
        /\ reqs[r].slug = reqs[p].slug

\* row c of claims is on the slot the participant call r names
OnSlotOf(c, r) ==
    /\ c.khuwaniId = reqs'[r].k.id
    /\ c.quranNumber = reqs'[r].body.quranNumber
    /\ c.siparaNumber = reqs'[r].body.siparaNumber

\* C21: no step of a claim or release call, whatever it answers, adds,
\* removes or renames a row of claims on another slot than the one the call
\* names (another sipara or Quran of the khuwani, or another khuwani), and no
\* such step changes a row of khuwanies.
C21_OtherSlotsUntouched ==
    [][\A r \in Reqs :
          (reqs'[r] # reqs[r] /\ reqs'[r].kind \in {"claim", "unclaim"}) =>
              /\ \A c \in claims \cup claims' :
                    ~ OnSlotOf(c, r) => (c \in claims <=> c \in claims')
              /\ khuwanies' = khuwanies]_vars

\* a claim and a release on sipara 1 of Quran 1 under the name that holds
\* sipara 1 of Quran 2 were both answered 200, and the claims of the start,
\* on Quran 2 and on the other khuwani, are still there
C21_Witness ==
    \E r \in Reqs, u \in Reqs :
        /\ ValidClaim(r) /\ Done(r) /\ reqs[r].status = 200
        /\ reqs[r].body.quranNumber = 1
        /\ ParsedName(reqs[r].body) = <<"A">>
        /\ SameSlot(u, "unclaim", r) /\ Done(u) /\ reqs[u].status = 200
        /\ ClaimInitialClaims \subseteq claims
        /\ khuwanies = {ClaimKhuwani1, Khuwani2}

\* what the lookup of a participant call answers, from the rows of khuwanies
\* and the call's arguments: <<pc, status>>
LookupOutcome(kind, slug, body) ==
    LET k == getKhuwaniBySlug(slug)
    IN  IF k = NoKhuwani THEN <<"done", 404>>
        ELSE IF ~ claimBodySchema(body) THEN <<"done", 400>>
        ELSE IF kind = "claim" /\ body.quranNumber > k.numQurans THEN <<"done", 400>>
        ELSE IF kind = "claim" THEN <<"createClaim", 0>>
        ELSE <<"deleteClaim", 0>>

\* what the statement of a participant call answers and leaves in claims,
\* from the rows of claims and khuwanies, the id of the next row, and the
\* call's arguments: <<status, claims>>
StatementOutcome(kind, khuwaniId, body) ==
    LET held == Holding(claims, khuwaniId, body.quranNumber, body.siparaNumber)
        named == {c \in held : c.participantName = Trim(body.participantName)}
        row == Claim(nextClaimId, khuwaniId, body.quranNumber, body.siparaNumber,
                     Trim(body.participantName))
    IN  IF kind = "unclaim"
        THEN <<IF named # {} THEN 200 ELSE 400, claims \ named>>
        ELSE IF held # {} THEN <<409, claims>>
        ELSE IF \E k \in khuwanies : k.id = khuwaniId THEN <<200, claims \cup {row}>>
        ELSE <<500, claims>>

\* C22: what a claim or release call answers and does is a function of the
\* tables and of the call's slug, Quran number, sipara number and name alone:
\* at the lookup and at the statement, a call from the browser of the
\* organizer who made the claim, from another organizer's browser and from a
\* browser that is not signed in all get that answer and have that effect.
C22_CallerIsIrrelevant ==
    [][\A r \in Reqs :
          (reqs'[r] # reqs[r] /\ reqs'[r].kind \in {"claim", "unclaim"}) =>
              IF reqs[r].pc = "idle"
              THEN /\ <<reqs'[r].pc, reqs'[r].status>>
                         = LookupOutcome(reqs'[r].kind, reqs'[r].slug, reqs'[r].body)
                   /\ claims' = claims /\ khuwanies' = khuwanies
              ELSE /\ <<reqs'[r].status, claims'>>
                         = StatementOutcome(reqs[r].kind, reqs[r].k.id, reqs[r].body)
                   /\ reqs'[r].pc = "done" /\ khuwanies' = khuwanies]_vars

\* a claim made from the browser of organizer 1 was released, by its name,
\* from the browser that is not signed in
C22_Witness ==
    \E r \in Reqs, u \in Reqs :
        /\ ValidClaim(r) /\ Done(r) /\ reqs[r].status = 200
        /\ reqs[r].organizerId = 1
        /\ SameSlot(u, "unclaim", r) /\ Done(u) /\ reqs[u].status = 200
        /\ reqs[u].organizerId = 0
        /\ ParsedName(reqs[u].body) = ParsedName(reqs[r].body)
        /\ Holding(claims, reqs[r].k.id, reqs[r].body.quranNumber,
                   reqs[r].body.siparaNumber) = {}

\* request r issues its insert in this step
Inserts(r) ==
    reqs[r].kind = "claim" /\ reqs[r].pc = "createClaim" /\ reqs'[r] # reqs[r]

\* C23: an insert refused by the unique constraint (the slot is held) is
\* answered 409 with the slot-taken message, never 500; an insert refused for
\* another reason (the khuwani's row is gone) is answered 500 "Failed to claim
\* sipara"; a claim call that has looked its khuwani up always has its one
\* answering step ahead, and a call that has answered keeps that answer.
C23_ErrorMapping ==
    /\ [](\A r \in Reqs :
             (reqs[r].kind = "claim" /\ ~ Done(r)) =>
                 reqs[r].pc = "createClaim" /\ ENABLED ClaimCreateClaim(r))
    /\ [][\A r \in Reqs :
             /\ (Inserts(r) /\ Holding(claims, reqs[r].k.id, reqs[r].body.quranNumber,
                                       reqs[r].body.siparaNumber) # {})
                => /\ reqs'[r].pc = "done" /\ reqs'[r].status = 409
                   /\ reqs'[r].message = SlotTaken
             /\ (Inserts(r) /\ Holding(claims, reqs[r].k.id, reqs[r].body.quranNumber,
                                       reqs[r].body.siparaNumber) = {}
                            /\ ~ KhuwaniExists(r))
                => /\ reqs'[r].pc = "done" /\ reqs'[r].status = 500
                   /\ reqs'[r].message = FailedToClaim
             /\ (reqs[r].kind = "claim" /\ Done(r)) => reqs'[r] = reqs[r]]_vars

\* a claim call has issued its insert on a slot held since the start: the
\* serial of claims has advanced, no row was added, and the call was answered
\* 409 with the slot-taken message
C23_Witness ==
    \E p \in Reqs :
        /\ ValidClaim(p) /\ Done(p)
        /\ reqs[p].status = 409 /\ reqs[p].message = SlotTaken
        /\ nextClaimId > 3 /\ claims = InitialClaims

\* C30 as stated: every claim call, however its steps interleave with those
\* of delete, reset, add-quran, claim and release calls, is answered 200,
\* 404, 400 or 409, never 500.
C30_NeverInternalFailure ==
    \A r \in Reqs :
        (reqs[r].kind = "claim" /\ Done(r)) => reqs[r].status \in {200, 404, 400, 409}

\* the failures C24 names, on the body alone: a password shorter than 6
\* characters or a confirmation that differs from the password
StatedInvalid(body) ==
    \/ Len(body.password) < MinPasswordLen
    \/ body.password # body.confirmPassword

\* those, and an email that is not a well-formed address
AmendedInvalid(body) == StatedInvalid(body) \/ ~ IsEmail(body.email)

\* the register call r: a body that is invalid, or an email that a row of
\* organizers has, ends the call at its lookup with an answer that is not 200
\* and no write; any other body takes it to the insert.  The insert, when a
\* row has the email by then, answers 500 and writes nothing; otherwise it
\* adds exactly one row, with the email, a fresh id and a digest that is not
\* the password, writes that id to the session of the caller's browser and of
\* no other, and answers 200.
RegisterSteps(r, Invalid(_)) ==
    /\ (reqs[r].pc = "idle" /\ reqs'[r].kind = "register") =>
          LET body == reqs'[r].body
          IN  /\ organizers' = organizers /\ session' = session
              /\ IF Invalid(body) \/ \E o \in organizers : o.email = body.email
                 THEN reqs'[r].pc = "done" /\ reqs'[r].status # 200
                 ELSE reqs'[r].pc = "createOrganizer"
    /\ (reqs[r].kind = "register" /\ reqs[r].pc = "createOrganizer"
        /\ reqs'[r] # reqs[r]) =>
          LET body == reqs[r].body
          IN  IF \E o \in organizers : o.email = body.email
              THEN /\ reqs'[r].pc = "done" /\ reqs'[r].status # 200
                   /\ organizers' = organizers /\ session' = session
              ELSE /\ reqs'[r].pc = "done" /\ reqs'[r].status = 200
                   /\ \E n \in organizers' :
                         /\ organizers' = organizers \cup {n}
                         /\ \A o \in organizers : o.id # n.id
                         /\ n.email = body.email
                         /\ n.passwordHash # body.password
                         /\ session' = [session EXCEPT ![reqs[r].browser] = n.id]

\* only the insert of a register call writes organizers or a session
OnlyRegisterWrites ==
    (organizers' # organizers \/ session' # session) =>
        \E r \in RegisterReqs :
            /\ reqs[r].kind = "register" /\ reqs[r].pc = "createOrganizer"
            /\ reqs'[r].pc = "done"

\* C24 as stated: register fails and persists nothing when the email is
\* registered, the password has fewer than 6 characters or the confirmation
\* differs, and in every other case persists one organizer and signs the
\* caller in.
C24_RegisterAsStated ==
    [][/\ \A r \in RegisterReqs : RegisterSteps(r, StatedInvalid)
       /\ OnlyRegisterWrites]_vars

\* C24 amended: register fails and persists nothing when the email is not a
\* well-formed address, is registered (when looked up or by the time of the
\* insert), the password has fewer than 6 characters or the confirmation
\* differs; in every other case it persists exactly one new organizer and
\* the session of the caller's browser then carries that organizer's id.
C24_Register ==
    [][/\ \A r \in RegisterReqs : RegisterSteps(r, AmendedInvalid)
       /\ OnlyRegisterWrites]_vars

\* one register call with a new address was answered 200 and its browser is
\* signed in as the new organizer; one with a confirmation that differs was
\* answered 400; the table holds the two organizers
C24_Witness ==
    \E r \in Reqs, p \in Reqs :
        /\ reqs[r].kind = "register" /\ Done(r) /\ reqs[r].status = 200
        /\ session[reqs[r].browser] = reqs[r].organizerId
        /\ \E o \in organizers : o.id = reqs[r].organizerId /\ o.email = NewEmail
        /\ reqs[p].kind = "register" /\ Done(p) /\ reqs[p].status = 400
        /\ reqs[p].body.password # reqs[p].body.confirmPassword
        /\ Cardinality(organizers) = 2

\* C25: a khuwani keeps its slug, its organizer and its marhoom name for as
\* long as its row exists, whatever add-quran, reset, claim, unclaim, create
\* and delete calls run; a row that appears has an id no row had before.
C25_IdentityImmutable ==
    [][/\ \A k \in khuwanies : \A n \in khuwanies' :
             k.id = n.id => /\ n.slug = k.slug
                            /\ n.organizerId = k.organizerId
                            /\ n.marhoomName = k.marhoomName
       /\ \A n \in khuwanies' :
             (\A k \in khuwanies : k.id # n.id) => n.id >= nextKhuwaniId]_vars

\* an add-quran call on khuwani 1 and a create call by the other organizer
\* were both answered 200: khuwani 1 has two Qurans and its first identity
C25_Witness ==
    \E r \in Reqs, p \in Reqs :
        /\ reqs[r].kind = "add-quran" /\ Done(r) /\ reqs[r].status = 200
        /\ reqs[r].id = Khuwani1.id
        /\ reqs[p].kind = "create" /\ Done(p) /\ reqs[p].status = 200
        /\ \E k \in khuwanies :
              /\ k.id = Khuwani1.id /\ k.numQurans = Khuwani1.numQurans + 1
              /\ k.slug = Khuwani1.slug /\ k.marhoomName = Khuwani1.marhoomName
        /\ Cardinality(khuwanies) = 3

\* the slots of a set of claims
SlotsOf(cs) == {<<c.quranNumber, c.siparaNumber>> : c \in cs}

\* p is the integer nearest to 100 * num / den, the upper one of two
Nearest(p, num, den) ==
    /\ (2 * p - 1) * den <= 200 * num
    /\ 200 * num < (2 * p + 1) * den

ExampleSlots == {<<1, 1>>, <<1, 2>>, <<2, 1>>}

\* C26: the dashboard shows round(claims / (numQurans * 30) * 100) for a
\* khuwani and the participant's page round(claims of the Quran / 30 * 100)
\* for the selected Quran; with two Qurans and claims (1,1), (1,2), (2,1)
\* they show 5 and, for Quran 1, 7; without claims they show 0; and the
\* divisor is never 0: every stored and every answered khuwani has at least
\* one Quran.
C26_Projection ==
    /\ \A k \in khuwanies : totalSiparas(k) > 0
    /\ \A r \in ProgressReqs : \A s \in reqs[r].shown :
          LET all == Cardinality(s.claims)
              one == Cardinality({c \in s.claims : c.quranNumber = s.activeQuran})
          IN  /\ s.k.numQurans >= 1
              /\ reqs[r].kind = "list" =>
                    /\ Nearest(s.percent, all, s.k.numQurans * 30)
                    /\ all = 0 => s.percent = 0
                    /\ (s.k.numQurans = 2 /\ SlotsOf(s.claims) = ExampleSlots)
                          => s.percent = 5
              /\ reqs[r].kind = "view" =>
                    /\ Nearest(s.percent, one, 30)
                    /\ one = 0 => s.percent = 0
                    /\ (s.k.numQurans = 2 /\ SlotsOf(s.claims) = ExampleSlots
                        /\ s.activeQuran = 1) => s.percent = 7

\* the dashboard and the participant's page, on Quran 1, have rendered a
\* khuwani of two Qurans with the claims (1,1), (1,2), (2,1)
C26_Witness ==
    \E r \in ProgressReqs, p \in ProgressReqs :
        /\ reqs[r].kind = "list" /\ reqs[p].kind = "view"
        /\ \E s \in reqs[r].shown :
              s.k.numQurans = 2 /\ SlotsOf(s.claims) = ExampleSlots /\ s.percent = 5
        /\ \E s \in reqs[p].shown :
              /\ s.k.numQurans = 2 /\ SlotsOf(s.claims) = ExampleSlots
              /\ s.activeQuran = 1 /\ s.percent = 7

\* C27: the loop of a create call regenerates the slug while the store holds
\* the current one and fewer than 10 regenerations were made, each one
\* counted; otherwise it leaves the loop for the insert with the slug it has,
\* so at the first slug the store does not hold and after 10 regenerations
\* at the latest; the insert writes that slug.  No step but a counted
\* regeneration keeps a call in the loop, and the insert answers it.
C27_BoundedRetry ==
    /\ [](\A r \in SlugReqs : reqs[r].attempts <= 10)
    /\ [][\A r \in SlugReqs :
            /\ (reqs[r].pc = "slugExists" /\ reqs'[r] # reqs[r]) =>
                  IF (\E k \in khuwanies : k.slug = reqs[r].slug)
                     /\ reqs[r].attempts < 10
                  THEN /\ reqs'[r].pc = "slugExists"
                       /\ reqs'[r].attempts = reqs[r].attempts + 1
                  ELSE /\ reqs'[r].pc = "createKhuwani"
                       /\ reqs'[r].slug = reqs[r].slug
                       /\ reqs'[r].attempts = reqs[r].attempts
            /\ (reqs[r].pc = "createKhuwani" /\ reqs'[r] # reqs[r]) =>
                  /\ reqs'[r].pc = "done" /\ reqs'[r].slug = reqs[r].slug
                  /\ \A n \in khuwanies' \ khuwanies : n.slug = reqs[r].slug]_vars

\* against a store that held one of the two slugs, a create call left the
\* loop after its first regeneration, with the free slug, and was answered
\* 200; a later call then found every slug taken, made 10 regenerations and
\* was answered
C27_Witness ==
    \E r \in SlugReqs, p \in SlugReqs :
        /\ reqs[r].kind = "create" /\ Done(r) /\ reqs[r].status = 200
        /\ reqs[r].attempts = 1 /\ reqs[r].slug = TakenY.slug
        /\ TakenX \in khuwanies /\ TakenY \notin khuwanies
        /\ reqs[p].kind = "create" /\ Done(p) /\ reqs[p].attempts = 10

\* C28: the insert of a create call whose slug a row of the store has is
\* answered 500 Failed to create khuwani and writes nothing: the rows, with
\* their owners, names and Quran counts, the claims and the sessions are as
\* before.
C28_InsertCollision ==
    [][\A r \in SlugReqs :
          (/\ reqs[r].kind = "create" /\ reqs[r].pc = "createKhuwani"
           /\ reqs'[r] # reqs[r]
           /\ \E k \in khuwanies : k.slug = reqs[r].slug) =>
              /\ reqs'[r].pc = "done" /\ reqs'[r].status = 500
              /\ reqs'[r].message = FailedToCreate
              /\ khuwanies' = khuwanies /\ claims' = claims
              /\ session' = session /\ organizers' = organizers]_vars

\* a create call was answered 500 for a slug that khuwani 1 holds, after its
\* 10 regenerations or after another call took the slug first
C28_Witness ==
    \E r \in SlugReqs :
        /\ reqs[r].kind = "create" /\ Done(r) /\ reqs[r].status = 500
        /\ reqs[r].message = FailedToCreate
        /\ \E k \in khuwanies : k.slug = reqs[r].slug /\ k.organizerId # reqs[r].organizerId
        /\ \A k \in khuwanies : k.slug = reqs[r].slug => k.id # nextKhuwaniId - 1

\* the characters that separate the words of a name
IsSeparator(c) == c = " " \/ c = "-"

\* the length of the word s starts with
WordLen(s) ==
    CHOOSE n \in 1..Len(s) :
        /\ \A i \in 1..n : ~ IsSeparator(s[i])
        /\ n = Len(s) \/ IsSeparator(s[n + 1])

RECURSIVE Words(_)
\* the maximal runs of s without a separator, in order
Words(s) ==
    IF s = <<>> THEN <<>>
    ELSE IF IsSeparator(Head(s)) THEN Words(Tail(s))
    ELSE <<SubSeq(s, 1, WordLen(s))>> \o Words(SubSeq(s, WordLen(s) + 1, Len(s)))

RECURSIVE Hyphenated(_)
\* the words joined by single hyphens
Hyphenated(ws) ==
    IF ws = <<>> THEN <<>>
    ELSE IF Len(ws) = 1 THEN ws[1]
    ELSE ws[1] \o <<"-">> \o Hyphenated(Tail(ws))

KeptChar(c) == c \in LowerLetters \cup Digits \cup {" ", "-"}

\* the name in lower case without the characters outside [a-z0-9 -], its
\* words joined by single hyphens
Normalized(name) == Hyphenated(Words(SelectSeq(ToLowerCase(name), KeptChar)))

HajiAbdulRehmanBase ==
    <<"h", "a", "j", "i", "-", "a", "b", "d", "u", "l", "-", "r", "e", "h", "m",
      "a", "n">>

\* C29: the slug of a create call that passed validation is the normalized
\* name, a hyphen and the random suffix; the normalized name is made of
\* a-z, 0-9 and hyphens, has no two hyphens in a row and none at its start
\* or end; "Haji Abdul Rehman" has the base "haji-abdul-rehman".
C29_SlugShape ==
    \A r \in NameReqs :
        (reqs[r].kind = "create" /\ reqs[r].status \notin {400, 401}) =>
            LET base == Normalized(reqs[r].marhoomName)
            IN  /\ \E x \in Randoms : reqs[r].slug = base \o <<"-">> \o x
                /\ \A i \in 1..Len(base) : base[i] \in LowerLetters \cup Digits \cup {"-"}
                /\ \A i \in 1..(Len(base) - 1) : ~ (base[i] = "-" /\ base[i + 1] = "-")
                /\ base # <<>> => base[1] # "-" /\ base[Len(base)] # "-"
                /\ reqs[r].marhoomName = HajiAbdulRehman => base = HajiAbdulRehmanBase

\* the create call for "Haji Abdul Rehman" was answered 200 and its row has
\* a slug that starts with "haji-abdul-rehman-"
C29_Witness ==
    \E r \in NameReqs :
        /\ reqs[r].kind = "create" /\ Done(r) /\ reqs[r].status = 200
        /\ reqs[r].marhoomName = HajiAbdulRehman
        /\ \E k \in khuwanies, x \in Randoms :
              k.id = reqs[r].k.id /\ k.slug = HajiAbdulRehmanBase \o <<"-">> \o x

\* C31 as stated: an add-quran or reset call is answered 200 only by a step
\* taken while the khuwani it names is in the store, and the step of an
\* add-quran call leaves that row with one Quran more.
C31_SuccessMeansExisted ==
    [][\A r \in LifecycleReqs :
          (/\ reqs[r].kind \in {"add-quran", "reset"}
           /\ ~ Done(r) /\ reqs'[r].pc = "done" /\ reqs'[r].status = 200) =>
              \E k \in khuwanies :
                  /\ k.id = reqs[r].id
                  /\ reqs[r].kind = "add-quran" =>
                        \E n \in khuwanies' :
                            n.id = k.id /\ n.numQurans = k.numQurans + 1]_vars

\* the register calls for email e that went past the lookup and were answered
Inserted(e) ==
    {r \in RegisterReqs : /\ reqs[r].kind = "register" /\ Done(r)
                          /\ reqs[r].body.email = e
                          /\ reqs[r].status \in {200, 500}}

\* C32: no two organizers have one email; of the register calls for one new
\* email that all passed the lookup, exactly one is answered 200, has its
\* row in the table and its id in its browser's session; the step that
\* answers any other adds no row and writes no session.
C32_OneOrganizerPerEmail ==
    /\ [](/\ \A o \in organizers : \A n \in organizers :
                o.email = n.email => o = n
          /\ \A r \in RegisterReqs :
                (reqs[r].kind = "register" /\ Inserted(reqs[r].body.email) # {}) =>
                    \E w \in Inserted(reqs[r].body.email) :
                        /\ reqs[w].status = 200
                        /\ \E o \in organizers :
                              o.id = reqs[w].organizerId /\ o.email = reqs[w].body.email
                        /\ \A l \in Inserted(reqs[r].body.email) \ {w} :
                              reqs[l].status = 500 /\ reqs[l].organizerId = 0)
    /\ [][\A r \in RegisterReqs :
            (reqs[r].pc = "createOrganizer" /\ reqs'[r].pc = "done") =>
                IF reqs'[r].status = 200
                THEN /\ Cardinality(organizers') = Cardinality(organizers) + 1
                     /\ session'[reqs[r].browser] = reqs'[r].organizerId
                     /\ \A b \in Browsers \ {reqs[r].browser} : session'[b] = session[b]
                ELSE organizers' = organizers /\ session' = session]_vars

\* two register calls for the new email, from two browsers, both passed the
\* lookup: one was answered 200 and its browser is signed in, the other was
\* answered 500 and its browser is not; one row has the email
C32_Witness ==
    \E w \in RegisterReqs, l \in RegisterReqs :
        /\ reqs[w].kind = "register" /\ reqs[l].kind = "register"
        /\ reqs[w].body.email = NewEmail /\ reqs[l].body.email = NewEmail
        /\ reqs[w].status = 200 /\ reqs[l].status = 500
        /\ reqs[w].browser # reqs[l].browser
        /\ session[reqs[w].browser] = reqs[w].organizerId
        /\ session[reqs[l].browser] = 0
        /\ Cardinality({o \in organizers : o.email = NewEmail}) = 1

RECURSIVE ShownCounts(_, _)
\* the sum of the counts the dashboard's card shows for Qurans 1 to n
ShownCounts(e, n) ==
    IF n = 0 THEN 0 ELSE perQuranClaims(e, n) + ShownCounts(e, n - 1)

\* every Quran of a stored khuwani has at most 30 claims, and the khuwani at
\* most 30 for each of its Qurans
StoredWithinBounds ==
    \A k \in khuwanies :
        LET own == {c \in claims : c.khuwaniId = k.id}
        IN  /\ Cardinality(own) <= 30 * k.numQurans
            /\ \A q \in {c.quranNumber : c \in own} :
                  Cardinality({c \in own : c.quranNumber = q}) <= 30

\* C33 as stated: every Quran of a stored khuwani has at most 30 claims and
\* the khuwani at most 30 for each of its Qurans; every percentage a page
\* shows lies in 0..100; and the counts the dashboard shows for Qurans 1 to
\* numQurans, which it does for a khuwani of more than one Quran, add up to
\* the number of claims of the khuwani it shows.
C33_WithinBounds ==
    /\ StoredWithinBounds
    /\ \A r \in TotalsReqs : \A s \in reqs[r].shown :
          /\ s.percent \in 0..100
          /\ (reqs[r].kind = "list" /\ s.k.numQurans > 1) =>
                ShownCounts(s, s.k.numQurans) = Cardinality(s.claims)

\* C34: every khuwani in a listing belongs to the organizer who called it
\* and every claim listed with a khuwani is a claim of that khuwani; the
\* listing's first query returns all the rows the caller owns at that
\* moment and no other, and its query for a row returns all the claims that
\* row has at that moment and no other.
C34_OwnListingOnly ==
    /\ [](\A r \in ListingReqs : reqs[r].kind = "list" =>
            /\ \A k \in reqs[r].list : k.organizerId = reqs[r].organizerId
            /\ \A e \in reqs[r].result :
                  /\ e.k \in reqs[r].list
                  /\ \A c \in e.claims : c.khuwaniId = e.k.id)
    /\ [][\A r \in ListingReqs :
            /\ (reqs[r].kind = "list" /\ reqs[r].pc = "getKhuwaniesForOrganizer"
                /\ reqs'[r] # reqs[r]) =>
                  reqs'[r].list =
                      {k \in khuwanies : k.organizerId = reqs[r].organizerId}
            /\ (reqs[r].kind = "list" /\ reqs[r].pc = "getClaimsForKhuwani"
                /\ reqs'[r] # reqs[r]) =>
                  /\ reqs'[r].list = reqs[r].list
                  /\ \A e \in reqs'[r].result \ reqs[r].result :
                        e.claims = {c \in claims : c.khuwaniId = e.k.id}]_vars

\* organizer 1's listing was answered with khuwani 1 and its one claim, and
\* nothing else, after the other organizer created a khuwani
C34_Witness ==
    \E r \in ListingReqs, p \in ListingReqs :
        /\ reqs[r].kind = "list" /\ Done(r) /\ reqs[r].status = 200
        /\ reqs[r].organizerId = 1
        /\ reqs[r].result =
              {[k |-> Khuwani1, claims |-> {c \in InitialClaims : c.khuwaniId = 1}]}
        /\ reqs[p].kind = "create" /\ Done(p) /\ reqs[p].status = 200
        /\ reqs[p].organizerId = 2 /\ p < r
        /\ Cardinality(khuwanies) = 3

\* the call r is answered in this step
Answered(r) == reqs[r].pc # "done" /\ reqs'[r].pc = "done"

\* C35: a browser's session gets an organizer's id only in the step that
\* answers 200 to a register call of that browser, whose new row has the id,
\* or to a login call of that browser whose email a row has and whose
\* password matches that row's digest, the id being that row's; a login or
\* register call answered otherwise leaves every session as it was; logout
\* leaves the browser without an id; and a listing that arrives from a
\* browser without an id is answered 401 Not authenticated.
C35_IdentityOnlyBySignIn ==
    [][/\ \A b \in Browsers :
             (session'[b] # session[b] /\ session'[b] # 0) =>
                 \E r \in SessionReqs :
                     /\ Answered(r) /\ reqs'[r].status = 200 /\ reqs'[r].browser = b
                     /\ \/ /\ reqs'[r].kind = "register"
                           /\ \E o \in organizers' \ organizers :
                                 o.id = session'[b] /\ o.email = reqs'[r].body.email
                        \/ /\ reqs'[r].kind = "login"
                           /\ \E o \in organizers :
                                 /\ o.id = session'[b]
                                 /\ o.email = reqs'[r].body.email
                                 /\ o.passwordHash = Hash(reqs'[r].body.password)
       /\ \A r \in SessionReqs :
             /\ (Answered(r) /\ reqs'[r].kind \in {"login", "register"}
                 /\ reqs'[r].status # 200) => session' = session
             /\ (Answered(r) /\ reqs'[r].kind = "logout") =>
                   /\ session'[reqs'[r].browser] = 0
                   /\ \A b \in Browsers \ {reqs'[r].browser} : session'[b] = session[b]
             /\ (reqs[r].pc = "idle" /\ reqs'[r].kind = "list"
                 /\ session[reqs'[r].browser] = 0) =>
                   /\ reqs'[r].pc = "done" /\ reqs'[r].status = 401
                   /\ reqs'[r].message = NotAuthenticated]_vars

\* browser b signed in with a login answered 200, then logged out, and its
\* listing after that was answered 401; its session has no identity
SignedInThenOut(b) ==
    \E l \in SessionReqs, o \in SessionReqs, q \in SessionReqs :
        /\ l < o /\ o < q
        /\ reqs[l].kind = "login" /\ reqs[l].browser = b /\ reqs[l].status = 200
        /\ reqs[o].kind = "logout" /\ reqs[o].browser = b /\ Done(o)
        /\ reqs[q].kind = "list" /\ reqs[q].browser = b
        /\ Done(q) /\ reqs[q].status = 401
        /\ session[b] = 0

C35_Witness == \E b \in RegisterBrowsers : SignedInThenOut(b)

====
